---- MODULE Spec2Model ----
(***************************************************************************)
(* A model of realm::HNSWIndex (index_hnsw.cpp / index_hnsw.hpp): the     *)
(* in-memory layered graph m_vectors, its entry point, the fixed vector   *)
(* dimension, the persisted root array, and the operations insert, set,   *)
(* erase and clear with the search and neighbour-selection code they run. *)
(*                                                                         *)
(* Conventions.                                                            *)
(*  - An ObjKey is an integer of Keys; NoKey is the null ObjKey().         *)
(*  - A vector is a sequence of integer coordinates.                       *)
(*  - A distance is kept as an integer that orders exactly like the       *)
(*    double the code computes (see euclidean_distance).                   *)
(*  - std::priority_queue is modelled as the array-backed binary heap of  *)
(*    std::push_heap / std::pop_heap, so that the order among equal        *)
(*    distances is the one the heap produces.                              *)
(*  - std::unordered_map iteration order is unspecified: where the code's *)
(*    result depends on it, the model takes every order's result.         *)
(***************************************************************************)
EXTENDS Integers, Sequences, FiniteSets, TLC

VARIABLES
    m_vectors,            \* std::unordered_map<int64_t, Node>
    m_entry_point,        \* ObjKey, NoKey when null
    m_entry_point_layer,  \* int, -1 when the graph is empty
    vector_dimension,     \* m_config.vector_dimension, 0 until first fixed
    m_config_metric,      \* m_config.metric, fixed at construction
    m_array,              \* the persisted root array (m_array / m_root_array)
    last,                 \* the last completed call and how it ended
    crashed,              \* the process was stopped by a trapped invalid read
    calls,                \* number of calls made so far (bounded by MaxCalls)
    m_mutex,              \* std::shared_mutex: [writer, readers]
    pc,                   \* per thread: where it stands in its call
    call,                 \* per thread: the call it is executing
    observed              \* per thread: what its last read returned

vars == <<m_vectors, m_entry_point, m_entry_point_layer, vector_dimension, m_config_metric,
          m_array, last, crashed, calls, m_mutex, pc, call, observed>>

graphVars == <<m_vectors, m_entry_point, m_entry_point_layer, vector_dimension,
               m_config_metric,
               m_array, last, crashed, calls>>

threadVars == <<m_mutex, pc, call, observed>>

---------------------------------------------------------------------------
(* Bounds of the model *)

MaxKey == 3
MaxCoord == 1
MaxLayer == 1
MaxCalls == 4
MaxRows == 6
MaxThreadCalls == 3
MaxQueryRows == 5
MaxK == 3
MaxEf == 2
MaxRadius == 1
MaxHostRows == 3
MaxTransactionRows == 1
MaxPruneCoord == 2
MaxPruneRows == 5

(* Configuration (HNSWIndexConfig), chosen small *)
M == 1
M0 == 2
ef_construction == 2
ef_search == 2

k_format_version == 1
NoKey == -1

Keys == 1..MaxKey
Coords == 0..MaxCoord
Layers == 0..MaxLayer

RECURSIVE VectorsOfLen(_)
VectorsOfLen(n) ==
    IF n = 0 THEN {<< >>}
    ELSE {Append(v, c) : v \in VectorsOfLen(n - 1), c \in Coords}

(* What get_vector_for_key can return: the row's list.  The index holds   *)
(* vectors of one length only, so the model varies the coordinates of the *)
(* vectors of length 1 and adds the empty list and one list of length 2.  *)
Vectors == VectorsOfLen(0) \cup VectorsOfLen(1) \cup {<<0, 1>>}

Metrics == {"Euclidean", "Cosine", "DotProduct"}
(* switch (m_config.metric) *)
metric == m_config_metric

---------------------------------------------------------------------------
(* Small helpers on sequences *)

Range(s) == {s[i] : i \in 1..Len(s)}

Contains(s, x) == \E i \in 1..Len(s) : s[i] = x

(* std::remove + erase: drop every occurrence of x, keep the order *)
Remove(s, x) == SelectSeq(s, LAMBDA y : y # x)

(* the list left in the order the heap gave it up: what                    *)
(* ResultsNonDecreasing must rule out                                      *)
Unreversed(s) == s

RECURSIVE Reverse(_)
Reverse(s) == IF s = << >> THEN << >> ELSE Append(Reverse(Tail(s)), Head(s))

Min(a, b) == IF a < b THEN a ELSE b
Max(a, b) == IF a > b THEN a ELSE b

---------------------------------------------------------------------------
(* Distance metrics *)

RECURSIVE SumSq(_, _, _)
SumSq(v1, v2, i) ==
    IF i > Len(v1) THEN 0
    ELSE (v1[i] - v2[i]) * (v1[i] - v2[i]) + SumSq(v1, v2, i + 1)

RECURSIVE Dot(_, _, _)
Dot(v1, v2, i) ==
    IF i > Len(v1) THEN 0 ELSE v1[i] * v2[i] + Dot(v1, v2, i + 1)

(* sqrt(sum) in the code.  sqrt is strictly increasing and every use of a  *)
(* distance is a comparison with another distance of the same metric, so  *)
(* the model keeps the sum itself: d1 < d2 iff sqrt(d1) < sqrt(d2).        *)
euclidean_distance(v1, v2) == SumSq(v1, v2, 1)

(* 1 - dot / (sqrt(norm1) * sqrt(norm2)), 1 for a zero vector.  Kept as    *)
(* CosScale * (1 - s) with s = sign(dot) * dot^2 / (norm1 * norm2), which *)
(* orders exactly like the code's value; CosScale clears the denominators *)
(* norm1 * norm2 that the vectors of the model can have.                   *)
CosScale == 14400
cosine_distance(v1, v2) ==
    LET dot == Dot(v1, v2, 1)
        norm1 == Dot(v1, v1, 1)
        norm2 == Dot(v2, v2, 1)
    IN  IF norm1 = 0 \/ norm2 = 0 THEN CosScale
        ELSE IF dot >= 0
             THEN CosScale - (dot * dot * CosScale) \div (norm1 * norm2)
             ELSE CosScale + (dot * dot * CosScale) \div (norm1 * norm2)

dot_product_distance(v1, v2) == 0 - Dot(v1, v2, 1)

compute_distance(v1, v2) ==
    CASE metric = "Euclidean" -> euclidean_distance(v1, v2)
      [] metric = "Cosine" -> cosine_distance(v1, v2)
      [] metric = "DotProduct" -> dot_product_distance(v1, v2)

---------------------------------------------------------------------------
(* std::priority_queue<SearchCandidate>: a binary heap in a sequence.      *)
(* cmp is "greater" for the min-heap `candidates` and "less" for the      *)
(* max-heap `w`; both compare SearchCandidate.distance only.               *)

Comp(cmp, a, b) ==
    IF cmp = "greater" THEN a.distance > b.distance ELSE a.distance < b.distance

(* std::__push_heap: move the hole up while the parent compares before value *)
RECURSIVE SiftUp(_, _, _, _, _)
SiftUp(h, hole, top, value, cmp) ==
    LET parent == hole \div 2
    IN  IF hole > top /\ Comp(cmp, h[parent], value)
        THEN SiftUp([h EXCEPT ![hole] = h[parent]], parent, top, value, cmp)
        ELSE [h EXCEPT ![hole] = value]

HeapPush(h, x, cmp) == SiftUp(Append(h, x), Len(h) + 1, 1, x, cmp)

(* std::__adjust_heap on the first len slots (1-based): move the hole down *)
(* to a leaf along the children that compare last, then push value up.     *)
RECURSIVE SiftDown(_, _, _, _, _)
SiftDown(h, hole, len, value, cmp) ==
    LET l == 2 * hole
        r == 2 * hole + 1
    IN  IF r <= len
        THEN LET c == IF Comp(cmp, h[r], h[l]) THEN l ELSE r
             IN  SiftDown([h EXCEPT ![hole] = h[c]], c, len, value, cmp)
        ELSE IF l = len
             THEN SiftUp([h EXCEPT ![hole] = h[l]], l, 1, value, cmp)
             ELSE SiftUp(h, hole, 1, value, cmp)

(* std::pop_heap + pop_back *)
HeapPop(h, cmp) ==
    IF Len(h) = 1 THEN << >>
    ELSE LET len == Len(h) - 1
         IN  SubSeq(SiftDown(h, 1, len, h[Len(h)], cmp), 1, len)

HeapTop(h) == h[1]

---------------------------------------------------------------------------
(* Search layer algorithm.  vecs is m_vectors: a function from the indexed *)
(* keys to Node records [obj_key, vector, layer, connections].  A search   *)
(* state s is [candidates, w, visited].                                    *)

SearchCandidate(key, dist) == [obj_key |-> key, distance |-> dist]

(* if (w.size() > ef) w.pop() *)
TrimHeap(w, ef) == IF Len(w) > ef THEN HeapPop(w, "less") ELSE w

(* if (neighbor_dist < w.top().distance || w.size() < ef) push to both *)
ConsiderNeighbor(s, ef, cand) ==
    IF cand.distance < HeapTop(s.w).distance \/ Len(s.w) < ef
    THEN [s EXCEPT !.candidates = HeapPush(@, cand, "greater"),
                   !.w = TrimHeap(HeapPush(@, cand, "less"), ef)]
    ELSE s

(* The loop body without the m_vectors.find test on the neighbour: a key   *)
(* that is no longer in the table is ranked as if it were at the query.    *)
(* What ResultsAreIndexedRows must rule out.                               *)
VisitNeighborUnchecked(vecs, query, ef, s, neighbor_key) ==
    IF neighbor_key \in s.visited THEN s
    ELSE ConsiderNeighbor([s EXCEPT !.visited = @ \cup {neighbor_key}], ef,
             SearchCandidate(neighbor_key,
                 IF neighbor_key \in DOMAIN vecs
                 THEN compute_distance(query, vecs[neighbor_key].vector) ELSE 0))

(* A scan that does not consult the visited set: what the claim that     *)
(* each key is expanded at most once must rule out.                        *)
VisitNeighborAgain(vecs, query, ef, s, neighbor_key) ==
    IF neighbor_key \notin DOMAIN vecs
    THEN [s EXCEPT !.visited = @ \cup {neighbor_key}]
    ELSE ConsiderNeighbor([s EXCEPT !.visited = @ \cup {neighbor_key}], ef,
             SearchCandidate(neighbor_key,
                             compute_distance(query, vecs[neighbor_key].vector)))

(* The body of the for-loop over node.connections[layer] *)
VisitNeighbor(vecs, query, ef, s, neighbor_key) ==
    IF neighbor_key \in s.visited THEN s
    ELSE IF neighbor_key \notin DOMAIN vecs
    THEN [s EXCEPT !.visited = @ \cup {neighbor_key}]
    ELSE ConsiderNeighbor([s EXCEPT !.visited = @ \cup {neighbor_key}], ef,
             SearchCandidate(neighbor_key,
                             compute_distance(query, vecs[neighbor_key].vector)))

RECURSIVE ScanNeighbors(_, _, _, _, _, _)
ScanNeighbors(vecs, query, ef, conns, i, s) ==
    IF i > Len(conns) THEN s
    ELSE ScanNeighbors(vecs, query, ef, conns, i + 1,
                       VisitNeighbor(vecs, query, ef, s, conns[i]))

(* What one popped candidate adds: nothing when it is not indexed or has  *)
(* no list at this layer, else the scan of its neighbours.                 *)
ExpandCandidate(vecs, query, ef, layer, current, s) ==
    IF current.obj_key \notin DOMAIN vecs THEN s
    ELSE IF layer >= Len(vecs[current.obj_key].connections) THEN s
    ELSE ScanNeighbors(vecs, query, ef,
                       vecs[current.obj_key].connections[layer + 1], 1, s)

(* The greedy while-loop: returns the max-heap w when it ends.  current is *)
(* candidates.top() and s the state after candidates.pop().                *)
RECURSIVE GreedySearch(_, _, _, _, _)
RECURSIVE GreedyStep(_, _, _, _, _, _)
GreedyStep(vecs, query, ef, layer, current, s) ==
    IF current.distance > HeapTop(s.w).distance /\ Len(s.w) >= ef
    THEN s.w
    ELSE GreedySearch(vecs, query, ef, layer,
                      ExpandCandidate(vecs, query, ef, layer, current, s))

GreedySearch(vecs, query, ef, layer, s) ==
    IF s.candidates = << >> THEN s.w
    ELSE GreedyStep(vecs, query, ef, layer, HeapTop(s.candidates),
                    [s EXCEPT !.candidates = HeapPop(@, "greater")])

(* Extract results from the max-heap: worst first *)
RECURSIVE DrainHeap(_)
DrainHeap(w) ==
    IF w = << >> THEN << >>
    ELSE <<HeapTop(w)>> \o DrainHeap(HeapPop(w, "less"))

(* candidates.push(entry); w.push(entry); visited.insert(entry) *)
InitialSearchState(e) ==
    [candidates |-> HeapPush(<< >>, e, "greater"),
     w |-> HeapPush(<< >>, e, "less"),
     visited |-> {e.obj_key}]

(* Returns a sequence of SearchCandidate, ascending by distance *)
search_layer_with_distances(vecs, query, entry_point, ef, layer) ==
    IF entry_point = NoKey \/ DOMAIN vecs = {} THEN << >>
    ELSE IF entry_point \notin DOMAIN vecs THEN << >>
    ELSE Reverse(DrainHeap(GreedySearch(vecs, query, ef, layer,
             InitialSearchState(
                 SearchCandidate(entry_point,
                     compute_distance(query, vecs[entry_point].vector))))))

KeysOf(results) == [i \in 1..Len(results) |-> results[i].obj_key]

search_layer(vecs, query, entry_point, ef, layer) ==
    KeysOf(search_layer_with_distances(vecs, query, entry_point, ef, layer))

---------------------------------------------------------------------------
(* Neighbour selection *)

select_neighbors_simple(query, candidates, Mcap) ==
    [i \in 1..Min(Mcap, Len(candidates)) |-> candidates[i].obj_key]

(* std::sort by distance.  On the short ranges of this model std::sort is *)
(* an insertion sort, which leaves equal distances in their given order.   *)
RECURSIVE InsertSorted(_, _)
InsertSorted(sorted, x) ==
    IF sorted = << >> THEN <<x>>
    ELSE IF x.distance < sorted[Len(sorted)].distance
         THEN Append(InsertSorted(SubSeq(sorted, 1, Len(sorted) - 1), x),
                     sorted[Len(sorted)])
         ELSE Append(sorted, x)

RECURSIVE SortByDistance(_)
SortByDistance(s) ==
    IF s = << >> THEN << >>
    ELSE InsertSorted(SortByDistance(SubSeq(s, 1, Len(s) - 1)), s[Len(s)])

(* One neighbour of one candidate: appended when it is not yet in the      *)
(* working set and is indexed.                                             *)
ExtendWith(vecs, query, working_set, neighbor) ==
    IF neighbor \notin {working_set[j].obj_key : j \in 1..Len(working_set)}
       /\ neighbor \in DOMAIN vecs
    THEN Append(working_set,
                SearchCandidate(neighbor, compute_distance(query, vecs[neighbor].vector)))
    ELSE working_set

RECURSIVE ExtendFromList(_, _, _, _, _)
ExtendFromList(vecs, query, conns, ni, working_set) ==
    IF ni > Len(conns) THEN working_set
    ELSE ExtendFromList(vecs, query, conns, ni + 1,
                        ExtendWith(vecs, query, working_set, conns[ni]))

(* extend_candidates: add the neighbours of every candidate at this layer *)
RECURSIVE ExtendWorkingSet(_, _, _, _, _, _)
ExtendWorkingSet(vecs, query, candidates, layer, ci, working_set) ==
    IF ci > Len(candidates) THEN working_set
    ELSE IF candidates[ci].obj_key \notin DOMAIN vecs
            \/ layer >= Len(vecs[candidates[ci].obj_key].connections)
    THEN ExtendWorkingSet(vecs, query, candidates, layer, ci + 1, working_set)
    ELSE ExtendWorkingSet(vecs, query, candidates, layer, ci + 1,
             ExtendFromList(vecs, query,
                            vecs[candidates[ci].obj_key].connections[layer + 1],
                            1, working_set))

(* A selection that accepts every candidate it scans: what the            *)
(* comparison with the accepted neighbours must rule out                   *)
ShouldAddAnyCandidate(vecs, candidate, result) == TRUE

(* should_add: no selected neighbour is closer to the candidate than the  *)
(* candidate is to the query.                                              *)
ShouldAdd(vecs, candidate, result) ==
    IF candidate.obj_key \notin DOMAIN vecs THEN TRUE
    ELSE \A j \in 1..Len(result) :
            result[j] \in DOMAIN vecs =>
              ~(compute_distance(vecs[candidate.obj_key].vector, vecs[result[j]].vector)
                  < candidate.distance)

RECURSIVE SelectDiverse(_, _, _, _, _)
SelectDiverse(vecs, working_set, Mcap, i, result) ==
    IF i > Len(working_set) \/ Len(result) >= Mcap THEN result
    ELSE IF ShouldAdd(vecs, working_set[i], result)
         THEN SelectDiverse(vecs, working_set, Mcap, i + 1,
                            Append(result, working_set[i].obj_key))
         ELSE SelectDiverse(vecs, working_set, Mcap, i + 1, result)

select_neighbors_heuristic(vecs, query, candidates, Mcap, layer, extend_candidates) ==
    SelectDiverse(vecs,
        IF extend_candidates
        THEN SortByDistance(ExtendWorkingSet(vecs, query, candidates, layer, 1, candidates))
        ELSE candidates,
        Mcap, 1, << >>)

---------------------------------------------------------------------------
(* Graph operations on m_vectors *)

(* while (connections.size() <= layer) connections.push_back({}) *)
RECURSIVE GrowConnections(_, _)
GrowConnections(connections, layer) ==
    IF Len(connections) <= layer
    THEN GrowConnections(Append(connections, << >>), layer)
    ELSE connections

(* if (find(conn.begin(), conn.end(), b) == conn.end()) conn.push_back(b) *)
AddEdge(vecs, a, b, layer) ==
    IF Contains(vecs[a].connections[layer + 1], b) THEN vecs
    ELSE [vecs EXCEPT ![a].connections[layer + 1] = Append(@, b)]

GrowBoth(vecs, node1, node2, layer) ==
    [[vecs EXCEPT ![node1].connections = GrowConnections(@, layer)]
        EXCEPT ![node2].connections = GrowConnections(@, layer)]

connect_nodes(vecs, node1, node2, layer) ==
    IF node1 \notin DOMAIN vecs \/ node2 \notin DOMAIN vecs THEN vecs
    ELSE AddEdge(AddEdge(GrowBoth(vecs, node1, node2, layer), node1, node2, layer),
                 node2, node1, layer)

(* if (layer < conn.size()) conn.erase(remove(conn.begin(), conn.end(), b), conn.end()) *)
DropEdge(vecs, a, b, layer) ==
    IF layer < Len(vecs[a].connections)
    THEN [vecs EXCEPT ![a].connections[layer + 1] = Remove(@, b)]
    ELSE vecs

disconnect_nodes(vecs, node1, node2, layer) ==
    IF node1 \notin DOMAIN vecs \/ node2 \notin DOMAIN vecs THEN vecs
    ELSE DropEdge(DropEdge(vecs, node1, node2, layer), node2, node1, layer)

(* A range-for over node.connections[layer] whose body calls              *)
(* disconnect_nodes(node_key, x, layer), which erases from the very        *)
(* vector being walked (prune_connections and erase both do this).  The    *)
(* loop's begin/end were taken before the first erase, so it reads the     *)
(* original number of slots of the vector's buffer: buf is that buffer.    *)
(* An erase shifts the later elements left inside buf and leaves the       *)
(* slots past the new end as they were.  keep is the set of keys the body  *)
(* skips.  The walk's state is [vecs, ub, buf]; ub records that an erase   *)
(* invalidated the iterators in use (undefined behaviour).                 *)
AfterDisconnect(it, vecs1, node_key, layer) ==
    [vecs |-> vecs1,
     ub |-> it.ub \/ (Len(vecs1[node_key].connections[layer + 1])
                        < Len(it.vecs[node_key].connections[layer + 1])),
     buf |-> vecs1[node_key].connections[layer + 1]
               \o SubSeq(it.buf, Len(vecs1[node_key].connections[layer + 1]) + 1,
                         Len(it.buf))]

RECURSIVE WalkAndDisconnect(_, _, _, _, _)
WalkAndDisconnect(it, node_key, layer, i, keep) ==
    IF i > Len(it.buf) THEN it
    ELSE IF it.buf[i] \in keep
    THEN WalkAndDisconnect(it, node_key, layer, i + 1, keep)
    ELSE WalkAndDisconnect(
             AfterDisconnect(it, disconnect_nodes(it.vecs, node_key, it.buf[i], layer),
                             node_key, layer),
             node_key, layer, i + 1, keep)

GraphOf(it) == [vecs |-> it.vecs, ub |-> it.ub]

(* g = [vecs, ub] *)
DisconnectWhileIterating(g, node_key, layer, keep) ==
    GraphOf(WalkAndDisconnect(
                [vecs |-> g.vecs, ub |-> g.ub,
                 buf |-> g.vecs[node_key].connections[layer + 1]],
                node_key, layer, 1, keep))

(* The candidate list of prune_connections: the neighbours that are still *)
(* indexed, with their distance to the node.                               *)
WithDistanceTo(vecs, node_key, present) ==
    [i \in 1..Len(present) |->
        SearchCandidate(present[i],
            compute_distance(vecs[node_key].vector, vecs[present[i]].vector))]

PruneCandidates(vecs, node_key, layer) ==
    WithDistanceTo(vecs, node_key,
        SelectSeq(vecs[node_key].connections[layer + 1], LAMBDA x : x \in DOMAIN vecs))

MaxConn(layer) == IF layer = 0 THEN M0 ELSE M

(* node.connections[layer] = new_neighbors *)
ReplaceConnections(g, node_key, layer, new_neighbors) ==
    [g EXCEPT !.vecs[node_key].connections[layer + 1] = new_neighbors]

(* "Remove old connections", then "Update connections" *)
DropAndReplace(g, node_key, layer, new_neighbors) ==
    ReplaceConnections(
        DisconnectWhileIterating(g, node_key, layer, Range(new_neighbors)),
        node_key, layer, new_neighbors)

(* A prune that leaves the list as it is: what DegreeBound must rule out *)
prune_connections_never(g, node_key, layer) == g

prune_connections(g, node_key, layer) ==
    IF node_key \notin DOMAIN g.vecs THEN g
    ELSE IF layer >= Len(g.vecs[node_key].connections) THEN g
    ELSE IF Len(g.vecs[node_key].connections[layer + 1]) <= MaxConn(layer) THEN g
    ELSE DropAndReplace(g, node_key, layer,
             select_neighbors_heuristic(g.vecs, g.vecs[node_key].vector,
                 SortByDistance(PruneCandidates(g.vecs, node_key, layer)),
                 MaxConn(layer), layer, FALSE))

---------------------------------------------------------------------------
(* Persistence: what save_to_storage writes *)

EmptyRoot == [meta |-> << >>, nodes |-> {}]

NodeArray(node) ==
    [info |-> <<node.obj_key, node.layer>>,
     vector |-> node.vector,
     conns |-> [l \in 1..(node.layer + 1) |->
                  IF l <= Len(node.connections) THEN node.connections[l] ELSE << >>]]

(* The new root: slot 0 the metadata, then one node array per node.  The   *)
(* slot order is m_vectors' iteration order and carries no information.    *)
save_to_storage(vecs, ep, epl, dim) ==
    [meta |-> <<k_format_version, ep, epl, dim, M, ef_construction, ef_search>>,
     nodes |-> {NodeArray(vecs[k]) : k \in DOMAIN vecs}]

---------------------------------------------------------------------------
(* Mutations.  st is the index' state during one call:                     *)
(*   [vecs, ep, epl, dim, root, outcome, ub]                               *)
(* outcome is how the call ended: "done", "empty_vector" (insert found no  *)
(* vector and returned), "absent" (erase found no node and returned) or    *)
(* "DimensionMismatch" (InvalidArgument thrown).                           *)

StateOf(vecs, ep, epl, dim, root) ==
    [vecs |-> vecs, ep |-> ep, epl |-> epl, dim |-> dim, root |-> root,
     outcome |-> "done", ub |-> FALSE]

Saved(st) == [st EXCEPT !.root = save_to_storage(st.vecs, st.ep, st.epl, st.dim)]

(* A table that keeps the old node of an indexed key and stores the new    *)
(* one beside it: what NonGrowthOnRepeatedInsert must rule out             *)
PutNodeAsSecond(vecs, key, node) ==
    [k \in DOMAIN vecs \cup {IF key \in DOMAIN vecs THEN key + MaxKey ELSE key} |->
        IF k \in DOMAIN vecs THEN vecs[k] ELSE node]

(* m_vectors[key.value] = node *)
PutNode(vecs, key, node) ==
    [k \in DOMAIN vecs \cup {key} |-> IF k = key THEN node ELSE vecs[k]]

FirstOr(results, otherwise) == IF results # << >> THEN results[1] ELSE otherwise

(* for (lc = m_entry_point_layer; lc > node_layer; --lc) *)
RECURSIVE Descend(_, _, _, _, _)
Descend(vecs, query, curr_nearest, lc, stop) ==
    IF lc <= stop THEN curr_nearest
    ELSE Descend(vecs, query,
                 FirstOr(search_layer(vecs, query, curr_nearest, 1, lc), curr_nearest),
                 lc - 1, stop)

RECURSIVE ConnectAll(_, _, _, _, _)
ConnectAll(vecs, key, neighbors, lc, i) ==
    IF i > Len(neighbors) THEN vecs
    ELSE ConnectAll(connect_nodes(vecs, key, neighbors[i], lc), key, neighbors, lc, i + 1)

RECURSIVE PruneAll(_, _, _, _)
PruneAll(g, neighbors, lc, i) ==
    IF i > Len(neighbors) THEN g
    ELSE PruneAll(prune_connections(g, neighbors[i], lc), neighbors, lc, i + 1)

(* An insert that connects the new node and leaves the neighbours' lists  *)
(* as long as they have become: what DegreeCapExact must rule out          *)
ConnectOnly(g, key, neighbors, lc) ==
    [g EXCEPT !.vecs = ConnectAll(@, key, neighbors, lc, 1)]

(* "Connect new node to neighbors", then "Prune neighbors' connections" *)
ConnectAndPrune(g, key, neighbors, lc) ==
    PruneAll([g EXCEPT !.vecs = ConnectAll(@, key, neighbors, lc, 1)], neighbors, lc, 1)

SelectNeighbors(vecs, vector, candidates_with_dist, lc) ==
    IF lc = 0
    THEN select_neighbors_simple(vector, candidates_with_dist, MaxConn(lc))
    ELSE select_neighbors_heuristic(vecs, vector, candidates_with_dist, MaxConn(lc), lc, TRUE)

NextNearest(candidates_with_dist, curr_nearest) ==
    IF candidates_with_dist # << >> THEN candidates_with_dist[1].obj_key ELSE curr_nearest

(* for (lc = node_layer; lc >= 0; --lc): search, select, connect, prune *)
RECURSIVE LinkLayers(_, _, _, _, _)
RECURSIVE LinkLayer(_, _, _, _, _, _)
LinkLayer(g, key, vector, curr_nearest, lc, candidates_with_dist) ==
    LinkLayers(ConnectAndPrune(g, key,
                               SelectNeighbors(g.vecs, vector, candidates_with_dist, lc), lc),
               key, vector, NextNearest(candidates_with_dist, curr_nearest), lc - 1)

LinkLayers(g, key, vector, curr_nearest, lc) ==
    IF lc < 0 THEN g
    ELSE LinkLayer(g, key, vector, curr_nearest, lc,
             search_layer_with_distances(g.vecs, vector, curr_nearest, ef_construction, lc))

NewNode(key, vector, node_layer) ==
    [obj_key |-> key, vector |-> vector, layer |-> node_layer,
     connections |-> [l \in 1..(node_layer + 1) |-> << >>]]

(* "If this is the first node, make it the entry point" *)
InsertFirst(st, key, new_node, dim1) ==
    Saved([st EXCEPT !.outcome = "done", !.vecs = PutNode(@, key, new_node),
                     !.ep = key, !.epl = new_node.layer, !.dim = dim1])

(* "Update entry point if new node is on a higher layer", then persist *)
Linked(st, key, new_node, dim1, g) ==
    Saved([st EXCEPT !.outcome = "done", !.vecs = g.vecs, !.ub = g.ub, !.dim = dim1,
                     !.ep = IF new_node.layer > st.epl THEN key ELSE @,
                     !.epl = IF new_node.layer > @ THEN new_node.layer ELSE @])

InsertNode(st, key, new_node, dim1) ==
    IF DOMAIN st.vecs = {} THEN InsertFirst(st, key, new_node, dim1)
    ELSE Linked(st, key, new_node, dim1,
             LinkLayers([vecs |-> PutNode(st.vecs, key, new_node), ub |-> st.ub],
                        key, new_node.vector,
                        Descend(st.vecs, new_node.vector, st.ep, st.epl, new_node.layer),
                        new_node.layer))

(* validate_vector_dimension: TRUE when it throws *)
DimensionMismatch(dim, vector) == dim # 0 /\ Len(vector) # dim

(* validate_vector_dimension: the dimension after it returns *)
ValidatedDimension(dim, vector) == IF dim = 0 THEN Len(vector) ELSE dim

(* An insert that stores the node before it validates the vector: what     *)
(* DimensionUniformityNonEmpty must rule out                               *)
insert_validating_late(st, key, vector, node_layer) ==
    IF vector = << >> THEN [st EXCEPT !.outcome = "empty_vector"]
    ELSE IF DimensionMismatch(st.dim, vector)
    THEN [st EXCEPT !.outcome = "DimensionMismatch",
                    !.vecs = PutNode(@, key, NewNode(key, vector, node_layer))]
    ELSE InsertNode(st, key, NewNode(key, vector, node_layer),
                    ValidatedDimension(st.dim, vector))

(* An insert that stores the node before it looks at the fetched vector:   *)
(* what EmptyVectorIndexesNothing must rule out                            *)
insert_storing_empty(st, key, vector, node_layer) ==
    IF vector = << >>
    THEN [st EXCEPT !.outcome = "empty_vector",
                    !.vecs = PutNode(@, key, NewNode(key, vector, node_layer))]
    ELSE IF DimensionMismatch(st.dim, vector)
    THEN [st EXCEPT !.outcome = "DimensionMismatch"]
    ELSE InsertNode(st, key, NewNode(key, vector, node_layer),
                    ValidatedDimension(st.dim, vector))

(* HNSWIndex::insert with the fetched vector and the sampled layer *)
insert(st, key, vector, node_layer) ==
    IF vector = << >> THEN [st EXCEPT !.outcome = "empty_vector"]
    ELSE IF DimensionMismatch(st.dim, vector)
    THEN [st EXCEPT !.outcome = "DimensionMismatch"]
    ELSE InsertNode(st, key, NewNode(key, vector, node_layer),
                    ValidatedDimension(st.dim, vector))

(* for (layer = 0; layer <= node.layer; ++layer): disconnect every         *)
(* neighbour the walk over node.connections[layer] reads                   *)
RECURSIVE DisconnectLayers(_, _, _, _)
DisconnectLayers(g, key, layer, top) ==
    IF layer > top THEN g
    ELSE IF layer < Len(g.vecs[key].connections)
    THEN DisconnectLayers(DisconnectWhileIterating(g, key, layer, {}), key, layer + 1, top)
    ELSE DisconnectLayers(g, key, layer + 1, top)

WithoutNode(vecs, key) == [k \in DOMAIN vecs \ {key} |-> vecs[k]]

MaxNodeLayer(vecs) ==
    CHOOSE l \in {vecs[k].layer : k \in DOMAIN vecs} :
        \A k \in DOMAIN vecs : vecs[k].layer <= l

(* The scan for a new entry point keeps the first node, in m_vectors'      *)
(* iteration order, whose layer is the greatest: any such node.            *)
NewEntryPoints(vecs) ==
    IF DOMAIN vecs = {} THEN {<<NoKey, -1>>}
    ELSE {<<vecs[k].obj_key, vecs[k].layer>> :
             k \in {n \in DOMAIN vecs : vecs[n].layer = MaxNodeLayer(vecs)}}

(* "Remove node", "Update entry point if necessary", persist *)
RemoveNode(st, key, g) ==
    {Saved([st EXCEPT !.outcome = "done", !.vecs = WithoutNode(g.vecs, key), !.ub = g.ub,
                      !.ep = e[1], !.epl = e[2]]) :
        e \in IF key = st.ep THEN NewEntryPoints(WithoutNode(g.vecs, key))
              ELSE {<<st.ep, st.epl>>}}

(* An erase that resets the entry point before it finds out that the key   *)
(* is not indexed: what EraseOfMissingKeyIsNoOp must rule out              *)
erase_resetting_entry_point(st, key) ==
    IF key \notin DOMAIN st.vecs
    THEN {[st EXCEPT !.outcome = "absent", !.ep = NoKey, !.epl = -1]}
    ELSE RemoveNode(st, key,
             DisconnectLayers([vecs |-> st.vecs, ub |-> st.ub], key, 0, st.vecs[key].layer))

(* HNSWIndex::erase: the set of states it can end in *)
erase(st, key) ==
    IF key \notin DOMAIN st.vecs THEN {[st EXCEPT !.outcome = "absent"]}
    ELSE RemoveNode(st, key,
             DisconnectLayers([vecs |-> st.vecs, ub |-> st.ub], key, 0, st.vecs[key].layer))

(* HNSWIndex::set: erase(key); insert(key, value) *)
set(st, key, vector, node_layer) ==
    {insert(s1, key, vector, node_layer) : s1 \in erase(st, key)}

(* A clear() that also forgets the dimension: what DimensionFixedForLife   *)
(* must rule out                                                           *)
clear_forgetting_dimension(st) ==
    Saved([st EXCEPT !.outcome = "done", !.vecs = << >>, !.ep = NoKey, !.epl = -1,
                     !.dim = 0])

(* HNSWIndex::clear *)
clear(st) ==
    Saved([st EXCEPT !.outcome = "done", !.vecs = << >>, !.ep = NoKey, !.epl = -1])

---------------------------------------------------------------------------
(* Queries.  A result is [outcome, results, dim]: the pairs returned (as   *)
(* SearchCandidate records) and the dimension validate_vector_dimension    *)
(* leaves behind; outcome is "DimensionMismatch" when it throws.           *)

QueryResult(outcome, results, dim) ==
    [outcome |-> outcome, results |-> results, dim |-> dim]

(* if (results.size() > k) results.resize(k) *)
TruncateKeepsAll(results, k) == results

TruncateTo(results, k) == IF Len(results) > k THEN SubSeq(results, 1, k) ELSE results

(* ef_search == 0 ? max(m_config.ef_search, k) : ef_search, clamped to     *)
(* the number of vectors                                                   *)
ClampedEf(vecs, k, ef_search_arg) ==
    Min(IF ef_search_arg = 0 THEN Max(ef_search, k) ELSE ef_search_arg,
        Cardinality(DOMAIN vecs))

(* "Start from top layer and traverse down", "Search at layer 0 with ef    *)
(* parameter", "Return top k results"                                      *)
KnnResults(st, query, k, ef_search_arg) ==
    TruncateTo(
        search_layer_with_distances(st.vecs, query,
            Descend(st.vecs, query, st.ep, st.epl, 0),
            ClampedEf(st.vecs, k, ef_search_arg), 0),
        Min(k, Cardinality(DOMAIN st.vecs)))

(* A search_knn that validates the query before it looks at k or at the    *)
(* graph: what EmptySearchIsQuiet must rule out                            *)
search_knn_validating_first(st, query, k, ef_search_arg) ==
    IF DimensionMismatch(st.dim, query)
    THEN QueryResult("DimensionMismatch", << >>, st.dim)
    ELSE IF DOMAIN st.vecs = {} \/ st.ep = NoKey \/ k = 0
    THEN QueryResult("done", << >>, ValidatedDimension(st.dim, query))
    ELSE QueryResult("done",
             KnnResults([st EXCEPT !.dim = ValidatedDimension(@, query)],
                        query, k, ef_search_arg),
             ValidatedDimension(st.dim, query))

(* HNSWIndex::search_knn *)
search_knn(st, query, k, ef_search_arg) ==
    IF DOMAIN st.vecs = {} \/ st.ep = NoKey THEN QueryResult("done", << >>, st.dim)
    ELSE IF k = 0 THEN QueryResult("done", << >>, st.dim)
    ELSE IF DimensionMismatch(st.dim, query)
    THEN QueryResult("DimensionMismatch", << >>, st.dim)
    ELSE QueryResult("done",
             KnnResults([st EXCEPT !.dim = ValidatedDimension(@, query)],
                        query, k, ef_search_arg),
             ValidatedDimension(st.dim, query))

(* "Filter by distance threshold": the whole list, whatever the threshold  *)
WithinRadiusAll(results, max_distance, i) == results

(* "Filter by distance threshold": the pairs before the first one beyond   *)
(* max_distance                                                            *)
RECURSIVE WithinRadius(_, _, _)
WithinRadius(results, max_distance, i) ==
    IF i > Len(results) THEN results
    ELSE IF results[i].distance <= max_distance
    THEN WithinRadius(results, max_distance, i + 1)
    ELSE SubSeq(results, 1, i - 1)

(* min(ef_search * 2, max(ef_search, m_vectors.size())) *)
LargeEf(vecs) == Min(ef_search * 2, Max(ef_search, Cardinality(DOMAIN vecs)))

FilteredBy(r, max_distance) ==
    [r EXCEPT !.results = WithinRadius(@, max_distance, 1)]

(* HNSWIndex::search_radius, its inner search_knn call being let through   *)
(* the shared lock the caller already holds                                *)
search_radius(st, query, max_distance) ==
    IF DOMAIN st.vecs = {} \/ st.ep = NoKey THEN QueryResult("done", << >>, st.dim)
    ELSE IF max_distance < 0 THEN QueryResult("done", << >>, st.dim)
    ELSE IF DimensionMismatch(st.dim, query)
    THEN QueryResult("DimensionMismatch", << >>, st.dim)
    ELSE FilteredBy(
             search_knn([st EXCEPT !.dim = ValidatedDimension(@, query)], query,
                        Cardinality(DOMAIN st.vecs), LargeEf(st.vecs)),
             max_distance)

---------------------------------------------------------------------------
(* Filtered search as the host performs it (the query engine is not part   *)
(* of the index sources): over-fetch from the core, intersect with the     *)
(* membership set S, truncate to k; with S empty the core is skipped.      *)

OverFetch == 10

(* the membership sets a host may hold *)
FilterSets == SUBSET Keys

RECURSIVE Intersected(_, _)
Intersected(raw, S) ==
    IF raw = << >> THEN << >>
    ELSE IF Head(raw).obj_key \in S THEN <<Head(raw)>> \o Intersected(Tail(raw), S)
    ELSE Intersected(Tail(raw), S)

(* the raw list the host requests: k' = k * over-fetch, bounded by |nodes| *)
OverFetched(st, query, k) ==
    search_knn(st, query, Min(k * OverFetch, Cardinality(DOMAIN st.vecs)), 0).results

PostFilter(raw, S, k) == IF S = {} THEN << >> ELSE TruncateTo(Intersected(raw, S), k)

filtered_knn(st, query, k, S) == PostFilter(OverFetched(st, query, k), S, k)

---------------------------------------------------------------------------
(* Opening an index from a persisted root *)

(* "Load connections for each layer": connections.resize(node.layer + 1),  *)
(* then the slots 2 .. 2 + node.layer that the node array has              *)
LoadedConnections(node_array) ==
    [l \in 1..(node_array.info[2] + 1) |->
        IF l <= Len(node_array.conns) THEN node_array.conns[l] ELSE << >>]

LoadedNode(node_array) ==
    [obj_key |-> node_array.info[1], vector |-> node_array.vector,
     layer |-> node_array.info[2], connections |-> LoadedConnections(node_array)]

(* "Load nodes": m_vectors[node.obj_key.value] = std::move(node) *)
LoadedNodes(root) ==
    [k \in {n.info[1] : n \in root.nodes} |->
        LoadedNode(CHOOSE n \in root.nodes : n.info[1] = k)]

(* The metadata is read only when its array has at least 7 slots *)
MetadataRead(root) == Len(root.meta) >= 7

(* HNSWIndex::load_from_storage on a freshly constructed index (no entry   *)
(* point, entry layer -1, the configured dimension 0).  outcome "assert"   *)
(* is REALM_ASSERT(version == k_format_version) failing.                   *)
load_from_storage(root) ==
    IF root.meta = << >> /\ root.nodes = {}
    THEN StateOf(<< >>, NoKey, -1, 0, root)
    ELSE IF MetadataRead(root) /\ root.meta[1] # k_format_version
    THEN [StateOf(<< >>, NoKey, -1, 0, root) EXCEPT !.outcome = "assert"]
    ELSE IF MetadataRead(root)
    THEN StateOf(LoadedNodes(root), root.meta[2], root.meta[3], root.meta[4], root)
    ELSE StateOf(LoadedNodes(root), NoKey, -1, 0, root)

(* The index constructed from the ref of the root that save_to_storage     *)
(* wrote for this state                                                    *)
Reopened(st) == load_from_storage(save_to_storage(st.vecs, st.ep, st.epl, st.dim))

---------------------------------------------------------------------------
(* The state machine of one caller at a time *)

Current == StateOf(m_vectors, m_entry_point, m_entry_point_layer,
                   vector_dimension, m_array)

(* The member function returns (or throws) leaving the index in state r *)
Commit(r, op, key) ==
    /\ m_vectors' = r.vecs
    /\ m_entry_point' = r.ep
    /\ m_entry_point_layer' = r.epl
    /\ vector_dimension' = r.dim /\ UNCHANGED m_config_metric
    /\ m_array' = r.root
    /\ last' = [op |-> op, key |-> key, outcome |-> r.outcome,
                indexed |-> key \in DOMAIN m_vectors]
    /\ crashed' = FALSE

(* A build that checks iterators stops the process at the invalidated      *)
(* read; what is left is the root persisted before it.                     *)
Halt(root, op, key) ==
    /\ crashed' = TRUE
    /\ m_array' = root
    /\ last' = [op |-> op, key |-> key, outcome |-> "trap",
                indexed |-> key \in DOMAIN m_vectors]
    /\ UNCHANGED <<m_vectors, m_entry_point, m_entry_point_layer, vector_dimension, m_config_metric>>

Return(r, op, key) == Commit(r, op, key) /\ calls' = calls + 1

Trap(root, op, key) == Halt(root, op, key) /\ calls' = calls + 1

Insert(key, vector, node_layer) ==
    /\ ~crashed
    /\ calls < MaxCalls
    /\ \E r \in {insert(Current, key, vector, node_layer)} :
          \/ Return(r, "insert", key)
          \/ r.ub /\ Trap(m_array, "insert", key)
    /\ UNCHANGED threadVars

Set(key, vector, node_layer) ==
    /\ ~crashed
    /\ calls < MaxCalls
    /\ \E s1 \in erase(Current, key) :
         \E r \in {insert(s1, key, vector, node_layer)} :
            \/ Return(r, "set", key)
            \/ r.ub /\ Trap(IF s1.ub THEN m_array ELSE s1.root, "set", key)
    /\ UNCHANGED threadVars

Erase(key) ==
    /\ ~crashed
    /\ calls < MaxCalls
    /\ \E r \in erase(Current, key) :
         \/ Return(r, "erase", key)
         \/ r.ub /\ Trap(m_array, "erase", key)
    /\ UNCHANGED threadVars

Clear ==
    /\ ~crashed
    /\ calls < MaxCalls
    /\ Return(clear(Current), "clear", NoKey)
    /\ UNCHANGED threadVars

NoCall == [op |-> "none", key |-> NoKey, outcome |-> "done", indexed |-> FALSE]

Idle == [op |-> "none", key |-> NoKey, vector |-> << >>, node_layer |-> 0, erased |-> FALSE]

NothingObserved == [op |-> "none", value |-> 0]

Threads == {1, 2}

(* HNSWIndex::HNSWIndex(target_column, alloc, config) *)
Init ==
    /\ m_vectors = << >>
    /\ m_entry_point = NoKey
    /\ m_entry_point_layer = -1
    /\ vector_dimension = 0
    /\ m_config_metric = "Euclidean"
    /\ m_array = EmptyRoot
    /\ last = NoCall
    /\ crashed = FALSE
    /\ calls = 0
    /\ m_mutex = [writer |-> 0, readers |-> {}]
    /\ pc = [t \in Threads |-> "idle"]
    /\ call = [t \in Threads |-> Idle]
    /\ observed = [t \in Threads |-> NothingObserved]

Next ==
    \/ \E key \in Keys, vector \in Vectors, node_layer \in Layers :
          Insert(key, vector, node_layer)
    \/ \E key \in Keys, vector \in Vectors, node_layer \in Layers :
          Set(key, vector, node_layer)
    \/ \E key \in Keys : Erase(key)
    \/ Clear

Spec == Init /\ [][Next]_vars

---------------------------------------------------------------------------
(* Populating an index: the host creates rows with ascending keys and      *)
(* calls insert once for each, the way the tests fill a table.             *)

Populate(vector, node_layer) ==
    /\ ~crashed
    /\ calls < MaxRows
    /\ \E r \in {insert(Current, calls + 1, vector, node_layer)} :
          \/ Return(r, "insert", calls + 1)
          \/ r.ub /\ Trap(m_array, "insert", calls + 1)
    /\ UNCHANGED threadVars

NextPopulate == \E vector \in Vectors, node_layer \in Layers : Populate(vector, node_layer)

SpecPopulate == Init /\ [][NextPopulate]_vars

---------------------------------------------------------------------------
(* One caller that fills the index, erases rows and then asks one query *)

Queries == Vectors
Ks == 0..MaxK
EfSearches == 0..MaxEf

(* Thresholds of search_radius, on the scale of the model's distances; a   *)
(* negative one is refused by the code                                     *)
Radii == -1..MaxRadius

SearchKnn(query, k, ef_search_arg) ==
    /\ ~crashed
    /\ observed[1].op = "none"
    /\ \E r \in {search_knn(Current, query, k, ef_search_arg)} :
          /\ observed' = [observed EXCEPT ![1] =
                 [op |-> "search_knn", value |-> r.results, outcome |-> r.outcome,
                  k |-> k, max_distance |-> 0]]
          /\ vector_dimension' = r.dim /\ UNCHANGED m_config_metric
    /\ UNCHANGED <<m_vectors, m_entry_point, m_entry_point_layer, m_array, last,
                   crashed, calls, m_mutex, pc, call>>

SearchRadius(query, max_distance) ==
    /\ ~crashed
    /\ observed[1].op = "none"
    /\ \E r \in {search_radius(Current, query, max_distance)} :
          /\ observed' = [observed EXCEPT ![1] =
                 [op |-> "search_radius", value |-> r.results, outcome |-> r.outcome,
                  k |-> 0, max_distance |-> max_distance]]
          /\ vector_dimension' = r.dim /\ UNCHANGED m_config_metric
    /\ UNCHANGED <<m_vectors, m_entry_point, m_entry_point_layer, m_array, last,
                   crashed, calls, m_mutex, pc, call>>

(* the rows are written before the query is asked *)
Fill(vector, node_layer) ==
    /\ observed[1].op = "none"
    /\ calls < MaxQueryRows
    /\ Populate(vector, node_layer)

EraseRow(key) ==
    /\ observed[1].op = "none"
    /\ Erase(key)

NextSearch ==
    \/ \E vector \in Vectors, node_layer \in Layers : Fill(vector, node_layer)
    \/ \E key \in Keys : EraseRow(key)
    \/ \E query \in Queries, k \in Ks, ef_search_arg \in EfSearches :
          SearchKnn(query, k, ef_search_arg)
    \/ \E query \in Queries, max_distance \in Radii : SearchRadius(query, max_distance)

SpecSearch == Init /\ [][NextSearch]_vars

---------------------------------------------------------------------------
(* Two hosts asking the core for raw results through the C API             *)
(* (realm_hnsw_search_knn, realm_hnsw_search_radius).  Each host holds a   *)
(* membership set S of its own; the call it makes carries the query, k and *)
(* ef_search (or the radius) and nothing else.  The second host repeats    *)
(* the first host's request.                                               *)

Asked(op, query, k, ef_search_arg, max_distance, S) ==
    [op |-> op, query |-> query, k |-> k, ef_search |-> ef_search_arg,
     max_distance |-> max_distance, S |-> S]

SameRequest(a, b) ==
    /\ a.op = b.op
    /\ a.query = b.query
    /\ a.k = b.k
    /\ a.ef_search = b.ef_search
    /\ a.max_distance = b.max_distance

HostTurn(t, request) ==
    /\ ~crashed
    /\ observed[t].op = "none"
    /\ t = 2 => observed[1].op # "none" /\ SameRequest(call[1], request)

(* a core that is handed the host's set and drops the rows outside it *)
HostSearchKnnPushingFilter(t, query, k, ef_search_arg, S) ==
    /\ HostTurn(t, Asked("search_knn", query, k, ef_search_arg, 0, S))
    /\ \E r \in {search_knn(Current, query, k, ef_search_arg)} :
          /\ observed' = [observed EXCEPT ![t] =
                 [op |-> "search_knn", value |-> Intersected(TruncateTo(r.results, k), S),
                  outcome |-> r.outcome, k |-> k, max_distance |-> 0]]
          /\ vector_dimension' = r.dim /\ UNCHANGED m_config_metric
    /\ call' = [call EXCEPT ![t] = Asked("search_knn", query, k, ef_search_arg, 0, S)]
    /\ UNCHANGED <<m_vectors, m_entry_point, m_entry_point_layer, m_array, last,
                   crashed, calls, m_mutex, pc>>

(* realm_hnsw_search_knn: search_knn(query, k, ef_search), then the first  *)
(* min(results.size(), k) results are copied out                           *)
HostSearchKnn(t, query, k, ef_search_arg, S) ==
    /\ HostTurn(t, Asked("search_knn", query, k, ef_search_arg, 0, S))
    /\ \E r \in {search_knn(Current, query, k, ef_search_arg)} :
          /\ observed' = [observed EXCEPT ![t] =
                 [op |-> "search_knn", value |-> TruncateTo(r.results, k),
                  outcome |-> r.outcome, k |-> k, max_distance |-> 0]]
          /\ vector_dimension' = r.dim /\ UNCHANGED m_config_metric
    /\ call' = [call EXCEPT ![t] = Asked("search_knn", query, k, ef_search_arg, 0, S)]
    /\ UNCHANGED <<m_vectors, m_entry_point, m_entry_point_layer, m_array, last,
                   crashed, calls, m_mutex, pc>>

(* realm_hnsw_search_radius: search_radius(query, max_distance) *)
HostSearchRadius(t, query, max_distance, S) ==
    /\ HostTurn(t, Asked("search_radius", query, 0, 0, max_distance, S))
    /\ \E r \in {search_radius(Current, query, max_distance)} :
          /\ observed' = [observed EXCEPT ![t] =
                 [op |-> "search_radius", value |-> r.results, outcome |-> r.outcome,
                  k |-> 0, max_distance |-> max_distance]]
          /\ vector_dimension' = r.dim /\ UNCHANGED m_config_metric
    /\ call' = [call EXCEPT ![t] = Asked("search_radius", query, 0, 0, max_distance, S)]
    /\ UNCHANGED <<m_vectors, m_entry_point, m_entry_point_layer, m_array, last,
                   crashed, calls, m_mutex, pc>>

(* the rows are written before the hosts ask *)
HostFill(vector, node_layer) ==
    /\ calls < MaxHostRows
    /\ Fill(vector, node_layer)

(* the membership sets the two hosts hold *)
HostSets == {{}, {1}, Keys \ {1}}

NextHosts ==
    \/ \E vector \in Vectors, node_layer \in Layers : HostFill(vector, node_layer)
    \/ \E key \in Keys : EraseRow(key)
    \/ \E t \in Threads, query \in Queries, k \in Ks, ef_search_arg \in EfSearches,
          S \in HostSets : HostSearchKnn(t, query, k, ef_search_arg, S)
    \/ \E t \in Threads, query \in Queries, max_distance \in Radii, S \in HostSets :
          HostSearchRadius(t, query, max_distance, S)

SpecHosts == Init /\ [][NextHosts]_vars

---------------------------------------------------------------------------
(* Creating an index through the C API and using it.                       *)

CMetrics == {"RLM_HNSW_METRIC_EUCLIDEAN", "RLM_HNSW_METRIC_COSINE",
             "RLM_HNSW_METRIC_DOT_PRODUCT"}

to_cpp_metric(c_metric) ==
    CASE c_metric = "RLM_HNSW_METRIC_EUCLIDEAN" -> "Euclidean"
      [] c_metric = "RLM_HNSW_METRIC_COSINE" -> "Cosine"
      [] c_metric = "RLM_HNSW_METRIC_DOT_PRODUCT" -> "DotProduct"
      [] OTHER -> "Euclidean"

(* the distance under a given metric, as compute_distance switches on it *)
DistanceUnder(m, v1, v2) ==
    CASE m = "Euclidean" -> euclidean_distance(v1, v2)
      [] m = "Cosine" -> cosine_distance(v1, v2)
      [] m = "DotProduct" -> dot_product_distance(v1, v2)

(* realm_hnsw_create_index(realm, class, property, M, ef_construction,     *)
(* metric): "(void)M; (void)ef_construction; (void)metric;" and then       *)
(* add_search_index(col_key, IndexType::HNSW): the index is built with the *)
(* default configuration, whose metric is the one compute_distance reads.  *)
realm_hnsw_create_index(M_arg, ef_construction_arg, c_metric) ==
    [M |-> M, ef_construction |-> ef_construction, metric |-> metric]

CreateIndex(c_metric) ==
    /\ call[1].op = "none"
    /\ calls = 0
    /\ call' = [call EXCEPT ![1] =
          [op |-> "create_index", requested |-> c_metric,
           config |-> realm_hnsw_create_index(M, ef_construction, c_metric)]]
    /\ UNCHANGED <<graphVars, m_mutex, pc, observed>>

CreatedFill(vector, node_layer) ==
    /\ call[1].op = "create_index"
    /\ calls < MaxHostRows
    /\ observed[1].op = "none"
    /\ Populate(vector, node_layer)

(* realm_hnsw_search_knn on the created index *)
CreatedSearchKnn(query, k) ==
    /\ ~crashed
    /\ call[1].op = "create_index"
    /\ observed[1].op = "none"
    /\ \E r \in {search_knn(Current, query, k, 0)} :
          /\ observed' = [observed EXCEPT ![1] =
                 [op |-> "search_knn", value |-> TruncateTo(r.results, k),
                  outcome |-> r.outcome, k |-> k, query |-> query]]
          /\ vector_dimension' = r.dim /\ UNCHANGED m_config_metric
    /\ UNCHANGED <<m_vectors, m_entry_point, m_entry_point_layer, m_array, last,
                   crashed, calls, m_mutex, pc, call>>

NextCreate ==
    \/ \E c_metric \in CMetrics : CreateIndex(c_metric)
    \/ \E vector \in Vectors, node_layer \in Layers : CreatedFill(vector, node_layer)
    \/ \E query \in Queries, k \in Ks : CreatedSearchKnn(query, k)

SpecCreate == Init /\ [][NextCreate]_vars

---------------------------------------------------------------------------
(* A write transaction of the host that is cancelled.  The rows written    *)
(* before it are committed; the transaction creates new rows (keys above   *)
(* MaxKey) and each insert persists a new root inside the transaction.     *)
(* The host's cancel_transaction is not part of the index sources: it      *)
(* puts back the root the transaction began with, and the index accessor   *)
(* is either constructed again from that root or kept as it is.            *)

CommittedInsert(key, vector, node_layer) ==
    /\ call[1].op = "none"
    /\ Insert(key, vector, node_layer)

BeginTransaction ==
    /\ ~crashed
    /\ call[1].op = "none"
    /\ call' = [call EXCEPT ![1] = [op |-> "transaction", before |-> Current, inserted |-> 0]]
    /\ UNCHANGED <<graphVars, m_mutex, pc, observed>>

TransactionInsert(vector, node_layer) ==
    /\ ~crashed
    /\ call[1].op = "transaction"
    /\ call[1].inserted < MaxTransactionRows
    /\ \E r \in {insert(Current, MaxKey + 1 + call[1].inserted, vector, node_layer)} :
          \/ Return(r, "insert", MaxKey + 1 + call[1].inserted)
          \/ r.ub /\ Trap(m_array, "insert", MaxKey + 1 + call[1].inserted)
    /\ call' = [call EXCEPT ![1].inserted = @ + 1]
    /\ UNCHANGED <<m_mutex, pc, observed>>

(* the accessor is constructed again from the root the transaction began   *)
(* with: HNSWIndex(ref, parent, ndx, ...) calls load_from_storage          *)
CancelReopens ==
    /\ ~crashed
    /\ call[1].op = "transaction"
    /\ call[1].inserted > 0
    /\ Commit(load_from_storage(call[1].before.root), "cancel", NoKey)
    /\ call' = [call EXCEPT ![1].op = "cancelled"]
    /\ UNCHANGED <<calls, m_mutex, pc, observed>>

(* the accessor is kept: only its root array is attached to the old root;  *)
(* HNSWIndex has no member that reloads m_vectors                          *)
CancelKeepsAccessor ==
    /\ ~crashed
    /\ call[1].op = "transaction"
    /\ call[1].inserted > 0
    /\ Commit([Current EXCEPT !.root = call[1].before.root], "cancel", NoKey)
    /\ call' = [call EXCEPT ![1].op = "cancelled"]
    /\ UNCHANGED <<calls, m_mutex, pc, observed>>

NextRollback ==
    \/ \E key \in Keys, vector \in Vectors, node_layer \in Layers :
          CommittedInsert(key, vector, node_layer)
    \/ BeginTransaction
    \/ \E vector \in Vectors, node_layer \in Layers : TransactionInsert(vector, node_layer)
    \/ CancelReopens
    \/ CancelKeepsAccessor

SpecRollback == Init /\ [][NextRollback]_vars

---------------------------------------------------------------------------
(* Two threads calling the index: each member function takes m_mutex for   *)
(* its own body, and set() calls erase() and then insert().                *)

CallSet(t, key, vector, node_layer) ==
    /\ ~crashed
    /\ calls < MaxThreadCalls
    /\ pc[t] = "idle"
    /\ pc' = [pc EXCEPT ![t] = "erase_wait"]
    /\ call' = [call EXCEPT ![t] = [op |-> "set", key |-> key, vector |-> vector,
                                    node_layer |-> node_layer, erased |-> FALSE]]
    /\ calls' = calls + 1
    /\ UNCHANGED <<m_vectors, m_entry_point, m_entry_point_layer, vector_dimension, m_config_metric,
                   m_array, last, crashed, m_mutex, observed>>

CallInsert(t, key, vector, node_layer) ==
    /\ ~crashed
    /\ calls < MaxThreadCalls
    /\ pc[t] = "idle"
    /\ pc' = [pc EXCEPT ![t] = "insert_wait"]
    /\ call' = [call EXCEPT ![t] = [op |-> "insert", key |-> key, vector |-> vector,
                                    node_layer |-> node_layer, erased |-> FALSE]]
    /\ calls' = calls + 1
    /\ UNCHANGED <<m_vectors, m_entry_point, m_entry_point_layer, vector_dimension, m_config_metric,
                   m_array, last, crashed, m_mutex, observed>>

CallCount(t) ==
    /\ ~crashed
    /\ calls < MaxThreadCalls
    /\ pc[t] = "idle"
    /\ pc' = [pc EXCEPT ![t] = "count_wait"]
    /\ call' = [call EXCEPT ![t] = [Idle EXCEPT !.op = "count"]]
    /\ calls' = calls + 1
    /\ UNCHANGED <<m_vectors, m_entry_point, m_entry_point_layer, vector_dimension, m_config_metric,
                   m_array, last, crashed, m_mutex, observed>>

(* std::unique_lock lock(m_mutex) *)
LockExclusive(t) ==
    /\ ~crashed
    /\ pc[t] \in {"erase_wait", "insert_wait"}
    /\ m_mutex.writer = 0
    /\ m_mutex.readers = {}
    /\ m_mutex' = [m_mutex EXCEPT !.writer = t]
    /\ pc' = [pc EXCEPT ![t] = IF @ = "erase_wait" THEN "erase" ELSE "insert"]
    /\ UNCHANGED <<graphVars, call, observed>>

(* std::shared_lock lock(m_mutex) *)
LockShared(t) ==
    /\ ~crashed
    /\ pc[t] = "count_wait"
    /\ m_mutex.writer = 0
    /\ m_mutex' = [m_mutex EXCEPT !.readers = @ \cup {t}]
    /\ pc' = [pc EXCEPT ![t] = "count"]
    /\ UNCHANGED <<graphVars, call, observed>>

(* erase(key) runs to its return under the lock, which is then released;   *)
(* set() goes on to call insert()                                          *)
EraseReturns(t) ==
    /\ ~crashed
    /\ pc[t] = "erase"
    /\ \E r \in erase(Current, call[t].key) :
          /\ \/ Commit(r, "erase", call[t].key)
             \/ r.ub /\ Halt(m_array, "erase", call[t].key)
          /\ call' = [call EXCEPT ![t].erased = (r.outcome = "done")]
    /\ m_mutex' = [m_mutex EXCEPT !.writer = 0]
    /\ pc' = [pc EXCEPT ![t] = "insert_wait"]
    /\ UNCHANGED <<calls, observed>>

(* insert(key, value) runs to its return or throw under the lock *)
InsertReturns(t) ==
    /\ ~crashed
    /\ pc[t] = "insert"
    /\ \E r \in {insert(Current, call[t].key, call[t].vector, call[t].node_layer)} :
          \/ Commit(r, "insert", call[t].key)
          \/ r.ub /\ Halt(m_array, "insert", call[t].key)
    /\ m_mutex' = [m_mutex EXCEPT !.writer = 0]
    /\ pc' = [pc EXCEPT ![t] = "idle"]
    /\ call' = [call EXCEPT ![t] = Idle]
    /\ UNCHANGED <<calls, observed>>

(* count(): m_vectors.size() under the shared lock *)
CountReturns(t) ==
    /\ ~crashed
    /\ pc[t] = "count"
    /\ observed' = [observed EXCEPT ![t] = [op |-> "count",
                                            value |-> Cardinality(DOMAIN m_vectors)]]
    /\ m_mutex' = [m_mutex EXCEPT !.readers = @ \ {t}]
    /\ pc' = [pc EXCEPT ![t] = "idle"]
    /\ call' = [call EXCEPT ![t] = Idle]
    /\ UNCHANGED graphVars

NextThreads ==
    \E t \in Threads :
       \/ \E key \in Keys, vector \in Vectors, node_layer \in Layers :
             CallSet(t, key, vector, node_layer)
       \/ \E key \in Keys, vector \in Vectors, node_layer \in Layers :
             CallInsert(t, key, vector, node_layer)
       \/ CallCount(t)
       \/ LockExclusive(t)
       \/ LockShared(t)
       \/ EraseReturns(t)
       \/ InsertReturns(t)
       \/ CountReturns(t)

SpecThreads == Init /\ [][NextThreads]_vars

---------------------------------------------------------------------------
(* Writers that call insert() from inside their own locked body:           *)
(* insert_bulk, insert_bulk_list and rebuild                               *)

(* insert_bulk / insert_bulk_list with one key to process *)
CallInsertBulk(t, key, vector, node_layer) ==
    /\ ~crashed
    /\ calls < MaxThreadCalls
    /\ pc[t] = "idle"
    /\ pc' = [pc EXCEPT ![t] = "bulk_wait"]
    /\ call' = [call EXCEPT ![t] = [op |-> "insert_bulk", key |-> key, vector |-> vector,
                                    node_layer |-> node_layer, erased |-> FALSE]]
    /\ calls' = calls + 1
    /\ UNCHANGED <<m_vectors, m_entry_point, m_entry_point_layer, vector_dimension, m_config_metric,
                   m_array, last, crashed, m_mutex, observed>>

CallRebuild(t) ==
    /\ ~crashed
    /\ calls < MaxThreadCalls
    /\ pc[t] = "idle"
    /\ pc' = [pc EXCEPT ![t] = "rebuild_wait"]
    /\ call' = [call EXCEPT ![t] = [Idle EXCEPT !.op = "rebuild"]]
    /\ calls' = calls + 1
    /\ UNCHANGED <<m_vectors, m_entry_point, m_entry_point_layer, vector_dimension, m_config_metric,
                   m_array, last, crashed, m_mutex, observed>>

(* std::unique_lock lock(m_mutex) of insert_bulk, insert_bulk_list, rebuild *)
LockOuter(t) ==
    /\ ~crashed
    /\ pc[t] \in {"bulk_wait", "rebuild_wait"}
    /\ m_mutex.writer = 0
    /\ m_mutex.readers = {}
    /\ m_mutex' = [m_mutex EXCEPT !.writer = t]
    /\ pc' = [pc EXCEPT ![t] = IF @ = "bulk_wait" THEN "bulk" ELSE "rebuild"]
    /\ UNCHANGED <<graphVars, call, observed>>

(* for (i = 0; i < num_values; ++i) insert(key, value): the call reaches   *)
(* insert's own unique_lock with the outer lock still held                 *)
BulkCallsInsert(t) ==
    /\ ~crashed
    /\ pc[t] = "bulk"
    /\ pc' = [pc EXCEPT ![t] = "insert_wait"]
    /\ UNCHANGED <<graphVars, m_mutex, call, observed>>

(* rebuild: copy the nodes, clear the table and the entry point, then      *)
(* insert(n.obj_key, Mixed()) for the first copied node, if there is one   *)
RebuildCallsInsert(t) ==
    /\ ~crashed
    /\ pc[t] = "rebuild"
    /\ m_vectors' = << >>
    /\ m_entry_point' = NoKey
    /\ m_entry_point_layer' = -1
    /\ IF m_vectors = << >>
       THEN /\ pc' = [pc EXCEPT ![t] = "idle"]
            /\ call' = [call EXCEPT ![t] = Idle]
            /\ m_mutex' = [m_mutex EXCEPT !.writer = 0]
            /\ last' = [op |-> "rebuild", key |-> NoKey, outcome |-> "done",
                        indexed |-> FALSE]
       ELSE /\ pc' = [pc EXCEPT ![t] = "insert_wait"]
            /\ \E n \in DOMAIN m_vectors, node_layer \in Layers :
                  call' = [call EXCEPT ![t].key = n,
                                       ![t].vector = m_vectors[n].vector,
                                       ![t].node_layer = node_layer]
            /\ UNCHANGED <<m_mutex, last>>
    /\ UNCHANGED <<vector_dimension, m_config_metric, m_array, crashed, calls, observed>>

(* Locking a std::shared_mutex its thread already owns is undefined: the   *)
(* thread blocks for ever (no step), or lock() throws std::system_error    *)
(* (resource_deadlock_would_occur), which leaves through the outer lock's  *)
(* destructor without any row inserted.                                    *)
RelockThrows(t) ==
    /\ ~crashed
    /\ pc[t] = "insert_wait"
    /\ m_mutex.writer = t
    /\ m_mutex' = [m_mutex EXCEPT !.writer = 0]
    /\ pc' = [pc EXCEPT ![t] = "idle"]
    /\ last' = [op |-> call[t].op, key |-> call[t].key, outcome |-> "system_error",
                indexed |-> call[t].key \in DOMAIN m_vectors]
    /\ call' = [call EXCEPT ![t] = Idle]
    /\ UNCHANGED <<m_vectors, m_entry_point, m_entry_point_layer, vector_dimension, m_config_metric,
                   m_array, crashed, calls, observed>>

NextWriters ==
    \E t \in Threads :
       \/ \E key \in Keys, vector \in Vectors, node_layer \in Layers :
             CallInsert(t, key, vector, node_layer)
       \/ \E key \in Keys, vector \in Vectors, node_layer \in Layers :
             CallInsertBulk(t, key, vector, node_layer)
       \/ CallRebuild(t)
       \/ LockExclusive(t)
       \/ LockOuter(t)
       \/ InsertReturns(t)
       \/ BulkCallsInsert(t)
       \/ RebuildCallsInsert(t)
       \/ RelockThrows(t)

SpecWriters == Init /\ [][NextWriters]_vars

---------------------------------------------------------------------------
(* A reader in search_radius beside a writer in insert: search_radius      *)
(* calls search_knn, which takes the shared lock again                     *)

CallRadius(t, query, max_distance) ==
    /\ ~crashed
    /\ calls < MaxThreadCalls
    /\ pc[t] = "idle"
    /\ pc' = [pc EXCEPT ![t] = "radius_wait"]
    /\ call' = [call EXCEPT ![t] = [op |-> "search_radius", key |-> NoKey,
                                    vector |-> query, node_layer |-> 0,
                                    erased |-> FALSE, max_distance |-> max_distance]]
    /\ calls' = calls + 1
    /\ UNCHANGED <<m_vectors, m_entry_point, m_entry_point_layer, vector_dimension, m_config_metric,
                   m_array, last, crashed, m_mutex, observed>>

(* std::shared_lock lock(m_mutex) of search_radius *)
LockSharedRadius(t) ==
    /\ ~crashed
    /\ pc[t] = "radius_wait"
    /\ m_mutex.writer = 0
    /\ m_mutex' = [m_mutex EXCEPT !.readers = @ \cup {t}]
    /\ pc' = [pc EXCEPT ![t] = "radius"]
    /\ UNCHANGED <<graphVars, call, observed>>

(* search_radius returns or throws before it calls search_knn *)
ReturnsBeforeKnn(query, max_distance) ==
    \/ DOMAIN m_vectors = {}
    \/ m_entry_point = NoKey
    \/ max_distance < 0
    \/ DimensionMismatch(vector_dimension, query)

RadiusResult(r, max_distance) ==
    [op |-> "search_radius", value |-> r.results, outcome |-> r.outcome,
     k |-> 0, max_distance |-> max_distance]

(* search_radius up to its call of search_knn, which reaches search_knn's  *)
(* own std::shared_lock with the outer one still held                      *)
RadiusCallsKnn(t) ==
    /\ ~crashed
    /\ pc[t] = "radius"
    /\ IF ReturnsBeforeKnn(call[t].vector, call[t].max_distance)
       THEN /\ observed' = [observed EXCEPT ![t] =
                   RadiusResult(search_radius(Current, call[t].vector,
                                              call[t].max_distance),
                                call[t].max_distance)]
            /\ m_mutex' = [m_mutex EXCEPT !.readers = @ \ {t}]
            /\ pc' = [pc EXCEPT ![t] = "idle"]
            /\ call' = [call EXCEPT ![t] = Idle]
       ELSE /\ pc' = [pc EXCEPT ![t] = "knn_wait"]
            /\ UNCHANGED <<observed, m_mutex, call>>
    /\ UNCHANGED graphVars

(* some thread waits for the exclusive lock *)
WriterWaiting == \E w \in Threads : pc[w] \in {"insert_wait", "erase_wait"}

(* Taking a std::shared_mutex in shared mode again from the thread that    *)
(* holds it is undefined.  What implementations do: they let the thread in *)
(* (this action), or, once a writer waits, queue it behind that writer     *)
(* (RelockSharedBlocks).                                                   *)
RelockSharedGranted(t) ==
    /\ ~crashed
    /\ pc[t] = "knn_wait"
    /\ t \in m_mutex.readers
    /\ pc' = [pc EXCEPT ![t] = "knn"]
    /\ UNCHANGED <<graphVars, m_mutex, call, observed>>

(* the reader waits for the writer, which waits for the reader's outer     *)
(* lock: neither moves again                                               *)
RelockSharedBlocks(t) ==
    /\ ~crashed
    /\ pc[t] = "knn_wait"
    /\ t \in m_mutex.readers
    /\ WriterWaiting
    /\ pc' = [pc EXCEPT ![t] = "deadlocked"]
    /\ UNCHANGED <<graphVars, m_mutex, call, observed>>

(* search_knn returns, search_radius filters and returns; both locks go *)
RadiusReturns(t) ==
    /\ ~crashed
    /\ pc[t] = "knn"
    /\ observed' = [observed EXCEPT ![t] =
           RadiusResult(search_radius(Current, call[t].vector, call[t].max_distance),
                        call[t].max_distance)]
    /\ m_mutex' = [m_mutex EXCEPT !.readers = @ \ {t}]
    /\ pc' = [pc EXCEPT ![t] = "idle"]
    /\ call' = [call EXCEPT ![t] = Idle]
    /\ UNCHANGED graphVars

NextReaders ==
    \E t \in Threads :
       \/ \E key \in Keys, vector \in Vectors, node_layer \in Layers :
             CallInsert(t, key, vector, node_layer)
       \/ \E query \in Queries, max_distance \in Radii : CallRadius(t, query, max_distance)
       \/ LockExclusive(t)
       \/ LockSharedRadius(t)
       \/ InsertReturns(t)
       \/ RadiusCallsKnn(t)
       \/ RelockSharedGranted(t)
       \/ RelockSharedBlocks(t)
       \/ RadiusReturns(t)

SpecReaders == Init /\ [][NextReaders]_vars

---------------------------------------------------------------------------
(* The inline accessors get_num_vectors, get_entry_point and get_max_layer *)
(* read their member without taking m_mutex, so they can run while a       *)
(* writer is inside insert or erase.  The writers are therefore shown in   *)
(* two steps: up to the first member they change, and from there to their  *)
(* return.                                                                 *)

Snapshot(vecs, ep, epl) ==
    [num_vectors |-> Cardinality(DOMAIN vecs), entry_point |-> ep, max_layer |-> epl]

InWrite(t, r) ==
    [op |-> call[t].op, key |-> call[t].key, vector |-> call[t].vector,
     node_layer |-> call[t].node_layer, erased |-> call[t].erased,
     indexed |-> call[t].key \in DOMAIN m_vectors,
     before |-> Snapshot(m_vectors, m_entry_point, m_entry_point_layer),
     pending |-> r]

(* insert as far as m_vectors[key.value] = new_node *)
InsertStoresNode(t) ==
    /\ ~crashed
    /\ pc[t] = "insert"
    /\ call[t].vector # << >>
    /\ ~DimensionMismatch(vector_dimension, call[t].vector)
    /\ \E r \in {insert(Current, call[t].key, call[t].vector, call[t].node_layer)} :
          /\ m_vectors' = PutNode(m_vectors, call[t].key,
                                  NewNode(call[t].key, call[t].vector, call[t].node_layer))
          /\ vector_dimension' = r.dim /\ UNCHANGED m_config_metric
          /\ call' = [call EXCEPT ![t] = InWrite(t, r)]
    /\ pc' = [pc EXCEPT ![t] = "insert_linking"]
    /\ UNCHANGED <<m_entry_point, m_entry_point_layer, m_array, last, crashed, calls,
                   m_mutex, observed>>

(* erase of the entry point as far as m_entry_point = ObjKey();            *)
(* m_entry_point_layer = -1                                                *)
EraseClearsEntryPoint(t) ==
    /\ ~crashed
    /\ pc[t] = "erase"
    /\ call[t].key \in DOMAIN m_vectors
    /\ call[t].key = m_entry_point
    /\ \E r \in erase(Current, call[t].key) :
          /\ m_vectors' = r.vecs
          /\ call' = [call EXCEPT ![t] = InWrite(t, r)]
    /\ m_entry_point' = NoKey
    /\ m_entry_point_layer' = -1
    /\ pc' = [pc EXCEPT ![t] = "erase_relinking"]
    /\ UNCHANGED <<vector_dimension, m_config_metric, m_array, last, crashed, calls, m_mutex, observed>>

(* the rest of the member function, to its return *)
WriteCompletes(t) ==
    /\ ~crashed
    /\ pc[t] \in {"insert_linking", "erase_relinking"}
    /\ \E r \in {call[t].pending} :
          /\ m_vectors' = r.vecs
          /\ m_entry_point' = r.ep
          /\ m_entry_point_layer' = r.epl
          /\ vector_dimension' = r.dim /\ UNCHANGED m_config_metric
          /\ m_array' = r.root
          /\ last' = [op |-> IF pc[t] = "insert_linking" THEN "insert" ELSE "erase",
                      key |-> call[t].key, outcome |-> r.outcome,
                      indexed |-> call[t].indexed]
    /\ m_mutex' = [m_mutex EXCEPT !.writer = 0]
    /\ pc' = [pc EXCEPT ![t] = IF @ = "insert_linking" THEN "idle" ELSE "insert_wait"]
    /\ call' = [call EXCEPT ![t] =
                   IF pc[t] = "insert_linking" THEN Idle
                   ELSE [op |-> call[t].op, key |-> call[t].key,
                         vector |-> call[t].vector, node_layer |-> call[t].node_layer,
                         erased |-> TRUE]]
    /\ UNCHANGED <<crashed, calls, observed>>

(* one read in a run *)
Accessor(t, name, value) ==
    /\ ~crashed
    /\ pc[t] = "idle"
    /\ \A u \in Threads : observed[u].op = "none"
    /\ observed' = [observed EXCEPT ![t] = [op |-> name, value |-> value]]
    /\ UNCHANGED <<graphVars, m_mutex, pc, call>>

get_num_vectors(t) == Accessor(t, "get_num_vectors", Cardinality(DOMAIN m_vectors))

get_entry_point(t) == Accessor(t, "get_entry_point", m_entry_point)

get_max_layer(t) == Accessor(t, "get_max_layer", m_entry_point_layer)

(* the rows written all carry a vector of one component *)
RowVectors == {vector \in Vectors : Len(vector) = 1}

NextAccessors ==
    \E t \in Threads :
       \/ \E key \in Keys, vector \in RowVectors, node_layer \in Layers :
             CallSet(t, key, vector, node_layer)
       \/ LockExclusive(t)
       \/ EraseReturns(t)
       \/ EraseClearsEntryPoint(t)
       \/ InsertReturns(t)
       \/ InsertStoresNode(t)
       \/ WriteCompletes(t)
       \/ get_num_vectors(t)
       \/ get_entry_point(t)
       \/ get_max_layer(t)

SpecAccessors == Init /\ [][NextAccessors]_vars

---------------------------------------------------------------------------
(* save_to_storage step by step, as insert reaches it.  m_array is the     *)
(* array that the parent's slot names: the old root until update_parent    *)
(* has written the new ref.                                                *)

(* the array after Array::destroy() *)
DestroyedRoot == [meta |-> << >>, nodes |-> {}, destroyed |-> TRUE]

InSave(t, r) ==
    [op |-> call[t].op, key |-> call[t].key, vector |-> call[t].vector,
     node_layer |-> call[t].node_layer, erased |-> call[t].erased,
     indexed |-> call[t].key \in DOMAIN m_vectors,
     old_root |-> m_array, pending |-> r]

(* insert up to "Swap in new array": the graph is updated in memory and    *)
(* new_root is built beside the old root                                   *)
SaveBuildsRoot(t) ==
    /\ ~crashed
    /\ pc[t] = "insert"
    /\ \E r \in {insert(Current, call[t].key, call[t].vector, call[t].node_layer)} :
          /\ r.outcome = "done"
          /\ m_vectors' = r.vecs
          /\ m_entry_point' = r.ep
          /\ m_entry_point_layer' = r.epl
          /\ vector_dimension' = r.dim /\ UNCHANGED m_config_metric
          /\ call' = [call EXCEPT ![t] = InSave(t, r)]
    /\ pc' = [pc EXCEPT ![t] = "save_built"]
    /\ UNCHANGED <<m_array, last, crashed, calls, m_mutex, observed>>

(* an allocation in create() or add() throws while the metadata or a node  *)
(* array is built: the exception leaves insert with the old root in place  *)
SaveFailsAllocating(t) ==
    /\ ~crashed
    /\ pc[t] = "insert"
    /\ \E r \in {insert(Current, call[t].key, call[t].vector, call[t].node_layer)} :
          /\ r.outcome = "done"
          /\ m_vectors' = r.vecs
          /\ m_entry_point' = r.ep
          /\ m_entry_point_layer' = r.epl
          /\ vector_dimension' = r.dim /\ UNCHANGED m_config_metric
    /\ last' = [op |-> "insert", key |-> call[t].key, outcome |-> "bad_alloc",
                indexed |-> call[t].key \in DOMAIN m_vectors]
    /\ m_mutex' = [m_mutex EXCEPT !.writer = 0]
    /\ pc' = [pc EXCEPT ![t] = "idle"]
    /\ call' = [call EXCEPT ![t] = Idle]
    /\ UNCHANGED <<m_array, crashed, calls, observed>>

(* m_array->destroy() *)
SaveDestroysOldRoot(t) ==
    /\ ~crashed
    /\ pc[t] = "save_built"
    /\ m_array' = DestroyedRoot
    /\ pc' = [pc EXCEPT ![t] = "save_destroyed"]
    /\ UNCHANGED <<m_vectors, m_entry_point, m_entry_point_layer, vector_dimension, m_config_metric,
                   last, crashed, calls, m_mutex, call, observed>>

(* m_array = std::move(new_root); set_parent; update_parent; insert returns *)
SaveUpdatesParent(t) ==
    /\ ~crashed
    /\ pc[t] = "save_destroyed"
    /\ m_array' = call[t].pending.root
    /\ last' = [op |-> "insert", key |-> call[t].key, outcome |-> "done",
                indexed |-> call[t].indexed]
    /\ m_mutex' = [m_mutex EXCEPT !.writer = 0]
    /\ pc' = [pc EXCEPT ![t] = "idle"]
    /\ call' = [call EXCEPT ![t] = Idle]
    /\ UNCHANGED <<m_vectors, m_entry_point, m_entry_point_layer, vector_dimension, m_config_metric,
                   crashed, calls, observed>>

NextSave ==
    \E t \in Threads :
       \/ \E key \in Keys, vector \in Vectors, node_layer \in Layers :
             CallInsert(t, key, vector, node_layer)
       \/ LockExclusive(t)
       \/ InsertReturns(t)
       \/ SaveBuildsRoot(t)
       \/ SaveFailsAllocating(t)
       \/ SaveDestroysOldRoot(t)
       \/ SaveUpdatesParent(t)

SpecSave == Init /\ [][NextSave]_vars

---------------------------------------------------------------------------
(* prune_connections as insert calls it: the new node has been stored and  *)
(* connected to its selected neighbours at layer lc (its top layer, the    *)
(* first one linked), the neighbours before the i-th have been pruned, and *)
(* prune_connections(neighbors[i], lc) runs.                               *)

StoredAndConnected(vecs1, key, neighbors, lc) ==
    [vecs |-> ConnectAll(vecs1, key, neighbors, lc, 1), ub |-> FALSE]

NeighborsAtTopLayer(st, vecs1, vector, lc) ==
    SelectNeighbors(vecs1, vector,
        search_layer_with_distances(vecs1, vector,
            Descend(st.vecs, vector, st.ep, st.epl, lc), ef_construction, lc),
        lc)

PruneCall(g, neighbors, i, lc) ==
    [op |-> "prune", node_key |-> neighbors[i], layer |-> lc,
     before |-> PruneAll(g, SubSeq(neighbors, 1, i - 1), lc, 1),
     after |-> prune_connections(PruneAll(g, SubSeq(neighbors, 1, i - 1), lc, 1),
                                 neighbors[i], lc)]

(* rows of one dimension whose coordinates spread over 0..MaxPruneCoord *)
PruneVectors == {<<c>> : c \in 0..MaxPruneCoord}

PruneFill(vector, node_layer) ==
    /\ ~crashed
    /\ call[1].op = "none"
    /\ calls < MaxPruneRows - 1
    /\ \E r \in {insert(Current, calls + 1, vector, node_layer)} :
          \/ Return(r, "insert", calls + 1)
          \/ r.ub /\ Trap(m_array, "insert", calls + 1)
    /\ UNCHANGED threadVars

PruneCalled(vector, node_layer, i) ==
    /\ ~crashed
    /\ call[1].op = "none"
    /\ m_vectors # << >>
    /\ calls < MaxPruneRows
    /\ \E neighbors \in {NeighborsAtTopLayer(Current,
                            PutNode(m_vectors, calls + 1, NewNode(calls + 1, vector, node_layer)),
                            vector, node_layer)} :
          /\ i <= Len(neighbors)
          /\ call' = [call EXCEPT ![1] =
                PruneCall(StoredAndConnected(
                              PutNode(m_vectors, calls + 1, NewNode(calls + 1, vector, node_layer)),
                              calls + 1, neighbors, node_layer),
                          neighbors, i, node_layer)]
    /\ UNCHANGED <<graphVars, m_mutex, pc, observed>>

NextPrune ==
    \/ \E vector \in PruneVectors, node_layer \in Layers : PruneFill(vector, node_layer)
    \/ \E vector \in PruneVectors, node_layer \in Layers, i \in 1..M0 :
          PruneCalled(vector, node_layer, i)

SpecPrune == Init /\ [][NextPrune]_vars

---------------------------------------------------------------------------
(* Radius search on an index constructed with any of the three metrics:    *)
(* HNSWIndex(target_column, alloc, config) keeps config.metric.            *)

InitAnyMetric ==
    /\ m_vectors = << >>
    /\ m_entry_point = NoKey
    /\ m_entry_point_layer = -1
    /\ vector_dimension = 0
    /\ m_config_metric \in Metrics
    /\ m_array = EmptyRoot
    /\ last = NoCall
    /\ crashed = FALSE
    /\ calls = 0
    /\ m_mutex = [writer |-> 0, readers |-> {}]
    /\ pc = [t \in Threads |-> "idle"]
    /\ call = [t \in Threads |-> Idle]
    /\ observed = [t \in Threads |-> NothingObserved]

RadiusFill(vector, node_layer) ==
    /\ calls < MaxHostRows
    /\ Fill(vector, node_layer)

NextRadius ==
    \/ \E vector \in Vectors, node_layer \in Layers : RadiusFill(vector, node_layer)
    \/ \E key \in Keys : EraseRow(key)
    \/ \E query \in Queries, max_distance \in Radii : SearchRadius(query, max_distance)

SpecRadius == InitAnyMetric /\ [][NextRadius]_vars

---------------------------------------------------------------------------
(* select_neighbors_heuristic as it is called: by insert at a layer above  *)
(* 0 with extend_candidates = true, and by prune_connections on a list     *)
(* that has outgrown its cap with extend_candidates = false.               *)

SelectCall(vecs, query, candidates, Mcap, layer, extend_candidates) ==
    [op |-> "select", vecs |-> vecs, query |-> query, candidates |-> candidates,
     Mcap |-> Mcap, layer |-> layer, extend_candidates |-> extend_candidates,
     result |-> select_neighbors_heuristic(vecs, query, candidates, Mcap, layer,
                                           extend_candidates)]

InsertSelects(vector, node_layer) ==
    /\ ~crashed
    /\ call[1].op = "none"
    /\ m_vectors # << >>
    /\ calls < MaxPruneRows
    /\ node_layer > 0
    /\ \E vecs1 \in {PutNode(m_vectors, calls + 1, NewNode(calls + 1, vector, node_layer))} :
          call' = [call EXCEPT ![1] =
             SelectCall(vecs1, vector,
                 search_layer_with_distances(vecs1, vector,
                     Descend(m_vectors, vector, m_entry_point, m_entry_point_layer,
                             node_layer),
                     ef_construction, node_layer),
                 MaxConn(node_layer), node_layer, TRUE)]
    /\ UNCHANGED <<graphVars, m_mutex, pc, observed>>

PruneSelectsIn(g, node_key, layer) ==
    /\ Len(g.vecs[node_key].connections[layer + 1]) > MaxConn(layer)
    /\ call' = [call EXCEPT ![1] =
          SelectCall(g.vecs, g.vecs[node_key].vector,
              SortByDistance(PruneCandidates(g.vecs, node_key, layer)),
              MaxConn(layer), layer, FALSE)]

PruneSelects(vector, node_layer, i) ==
    /\ ~crashed
    /\ call[1].op = "none"
    /\ m_vectors # << >>
    /\ calls < MaxPruneRows
    /\ \E neighbors \in {NeighborsAtTopLayer(Current,
                            PutNode(m_vectors, calls + 1, NewNode(calls + 1, vector, node_layer)),
                            vector, node_layer)} :
          /\ i <= Len(neighbors)
          /\ PruneSelectsIn(
                PruneAll(StoredAndConnected(
                             PutNode(m_vectors, calls + 1,
                                     NewNode(calls + 1, vector, node_layer)),
                             calls + 1, neighbors, node_layer),
                         SubSeq(neighbors, 1, i - 1), node_layer, 1),
                neighbors[i], node_layer)
    /\ UNCHANGED <<graphVars, m_mutex, pc, observed>>

NextSelect ==
    \/ \E vector \in PruneVectors, node_layer \in Layers : PruneFill(vector, node_layer)
    \/ \E vector \in PruneVectors, node_layer \in Layers : InsertSelects(vector, node_layer)
    \/ \E vector \in PruneVectors, node_layer \in Layers, i \in 1..M0 :
          PruneSelects(vector, node_layer, i)

SpecSelect == Init /\ [][NextSelect]_vars

---------------------------------------------------------------------------
(* search_layer_with_distances run one iteration of its while-loop at a    *)
(* time, on an index opened from a stored root.  load_from_storage takes   *)
(* the adjacency lists as the node arrays hold them, so the graph is any   *)
(* graph over the keys: lists may form cycles, need not be mutual, and may *)
(* name keys that have no node array.  call[1] holds the frame: the two    *)
(* heaps, the visited set and the keys popped from candidates and expanded *)
(* so far.                                                                 *)

(* the adjacency lists a node array of key k may hold at layer 0 *)
StoredLists(k) ==
    {s \in UNION {[1..n -> Keys \ {k}] : n \in 0..M0} :
        \A i, j \in 1..Len(s) : i < j => s[i] < s[j]}

NoNodeArray == [info |-> <<NoKey, 0>>, vector |-> << >>, conns |-> << >>]

StoredNodeArrays(k) ==
    {[info |-> <<k, 0>>, vector |-> v, conns |-> <<c>>] :
        v \in VectorsOfLen(1), c \in StoredLists(k)}

StoredRootOf(f) ==
    [meta |-> <<k_format_version,
                CHOOSE k \in Keys : f[k] # NoNodeArray /\ \A j \in 1..(k - 1) : f[j] = NoNodeArray,
                0, 1, M, ef_construction, ef_search>>,
     nodes |-> {f[k] : k \in Keys} \ {NoNodeArray}]

StoredRoots ==
    {StoredRootOf(f) :
        f \in {g \in [Keys -> {NoNodeArray} \cup UNION {StoredNodeArrays(k) : k \in Keys}] :
                  /\ \A k \in Keys : g[k] = NoNodeArray \/ g[k].info[1] = k
                  /\ \E k \in Keys : g[k] # NoNodeArray}}

(* HNSWIndex(ref, parent, ndx_in_parent, target_column, alloc, config) *)
InitOpened ==
    /\ m_array \in StoredRoots
    /\ m_vectors = load_from_storage(m_array).vecs
    /\ m_entry_point = load_from_storage(m_array).ep
    /\ m_entry_point_layer = load_from_storage(m_array).epl
    /\ vector_dimension = load_from_storage(m_array).dim
    /\ m_config_metric = "Euclidean"
    /\ last = NoCall
    /\ crashed = FALSE
    /\ calls = 0
    /\ m_mutex = [writer |-> 0, readers |-> {}]
    /\ pc = [t \in Threads |-> "idle"]
    /\ call = [t \in Threads |-> Idle]
    /\ observed = [t \in Threads |-> NothingObserved]

LayerFrame(query, entry_point, ef, layer, at, s, expanded, result) ==
    [op |-> "search_layer", query |-> query, entry_point |-> entry_point, ef |-> ef,
     layer |-> layer, at |-> at, s |-> s, expanded |-> expanded, result |-> result]

NoSearchState == [candidates |-> << >>, w |-> << >>, visited |-> {}]

SearchLayerCalled(query, entry_point, ef, layer) ==
    /\ ~crashed
    /\ call[1].op = "none"
    /\ call' = [call EXCEPT ![1] =
          IF entry_point = NoKey \/ DOMAIN m_vectors = {} \/ entry_point \notin DOMAIN m_vectors
          THEN LayerFrame(query, entry_point, ef, layer, "returned", NoSearchState, << >>, << >>)
          ELSE LayerFrame(query, entry_point, ef, layer, "loop",
                   InitialSearchState(
                       SearchCandidate(entry_point,
                           compute_distance(query, m_vectors[entry_point].vector))),
                   << >>, << >>)]
    /\ UNCHANGED <<graphVars, m_mutex, pc, observed>>

LoopEnds(f) ==
    [f EXCEPT !.at = "returned", !.result = Reverse(DrainHeap(f.s.w))]

LoopExpands(f, current, popped) ==
    IF current.distance > HeapTop(popped.w).distance /\ Len(popped.w) >= f.ef
    THEN LoopEnds(f)
    ELSE [f EXCEPT !.s = ExpandCandidate(m_vectors, f.query, f.ef, f.layer, current, popped),
                   !.expanded = Append(@, current.obj_key)]

SearchLayerIterates ==
    /\ call[1].op = "search_layer"
    /\ call[1].at = "loop"
    /\ call' = [call EXCEPT ![1] =
          IF call[1].s.candidates = << >> THEN LoopEnds(call[1])
          ELSE LoopExpands(call[1], HeapTop(call[1].s.candidates),
                           [call[1].s EXCEPT !.candidates = HeapPop(@, "greater")])]
    /\ UNCHANGED <<graphVars, m_mutex, pc, observed>>

SearchLayerReturns ==
    /\ call[1].op = "search_layer"
    /\ call[1].at = "returned"
    /\ call' = [call EXCEPT ![1] = Idle]
    /\ UNCHANGED <<graphVars, m_mutex, pc, observed>>

LayerQueries == VectorsOfLen(1)

NextLayer ==
    \/ \E query \in LayerQueries, entry_point \in Keys, ef \in 1..MaxEf, layer \in Layers :
          SearchLayerCalled(query, entry_point, ef, layer)
    \/ SearchLayerIterates
    \/ SearchLayerReturns

SpecLayer == InitOpened /\ [][NextLayer]_vars

(* the thread that runs the loop keeps running it *)
SpecLayerFair == SpecLayer /\ WF_vars(SearchLayerIterates)

---------------------------------------------------------------------------
(* rebuild() called on a populated index by one thread.  The call keeps    *)
(* the rows the index held when it was made.                               *)

RebuildFill(vector, node_layer) ==
    /\ call[1].op = "none"
    /\ calls < MaxHostRows
    /\ Populate(vector, node_layer)

RebuildCalled ==
    /\ ~crashed
    /\ call[1].op = "none"
    /\ pc[1] = "idle"
    /\ pc' = [pc EXCEPT ![1] = "rebuild_wait"]
    /\ call' = [call EXCEPT ![1] =
          [op |-> "rebuild", key |-> NoKey, vector |-> << >>, node_layer |-> 0,
           erased |-> FALSE, before |-> m_vectors]]
    /\ UNCHANGED <<graphVars, m_mutex, observed>>

NextRebuild ==
    \/ \E vector \in Vectors, node_layer \in Layers : RebuildFill(vector, node_layer)
    \/ RebuildCalled
    \/ LockOuter(1)
    \/ RebuildCallsInsert(1)
    \/ RelockThrows(1)

SpecRebuild == Init /\ [][NextRebuild]_vars

---------------------------------------------------------------------------
(* What the graph looks like from outside *)

Nodes == DOMAIN m_vectors

(* node.connections[layer], empty when the node has no such layer *)
Adjacency(n, layer) ==
    IF n \in Nodes /\ layer < Len(m_vectors[n].connections)
    THEN m_vectors[n].connections[layer + 1]
    ELSE << >>

StoredLayers(n) == 0..(Len(m_vectors[n].connections) - 1)

NoRepeats(list) == Cardinality(Range(list)) = Len(list)

(* the call that has just returned, as the caller sees it *)
Completed(op) == last.op = op /\ last.outcome = "done"

---------------------------------------------------------------------------
(* C1: after every completed mutation, for every node n, every layer l up  *)
(* to n's top layer and every b in n's adjacency at l, b is an indexed     *)
(* node and n is in b's adjacency at l.                                    *)
GraphSymmetry ==
    \A n \in Nodes : \A l \in 0..m_vectors[n].layer : \A b \in Range(Adjacency(n, l)) :
        b \in Nodes /\ n \in Range(Adjacency(b, l))

(* C2: after erase(k) of an indexed k has returned, no remaining node's    *)
(* adjacency list contains k at any layer.                                 *)
EraseClosure ==
    (Completed("erase") /\ last.indexed) =>
        \A n \in Nodes : \A l \in StoredLayers(n) : last.key \notin Range(Adjacency(n, l))

(* C3: after every completed mutation, an empty node table has no entry    *)
(* point and entry layer -1; otherwise the entry point is a node of the    *)
(* table and the entry layer is that node's top layer.                     *)
EntryPointConsistency ==
    IF Nodes = {}
    THEN m_entry_point = NoKey /\ m_entry_point_layer = -1
    ELSE m_entry_point \in Nodes /\ m_entry_point_layer = m_vectors[m_entry_point].layer

(* C4: whenever the graph is non-empty, the entry point node's top layer   *)
(* is the greatest top layer of all indexed nodes.                         *)
EntryPointMaximality ==
    Nodes # {} =>
        /\ m_entry_point \in Nodes
        /\ \A n \in Nodes : m_vectors[n].layer <= m_vectors[m_entry_point].layer

(* C5: after every completed mutation every node has at most M0 + 2        *)
(* neighbours at layer 0 and at most M + 2 at every layer above.           *)
DegreeBound ==
    \A n \in Nodes : \A l \in StoredLayers(n) : Len(Adjacency(n, l)) <= MaxConn(l) + 2

(* C5 witness: an insert has returned and left a node with a full list at  *)
(* a layer that holds more nodes than the list may name.                   *)
DegreeAtCapacity ==
    /\ Completed("insert")
    /\ \E n \in Nodes : \E l \in StoredLayers(n) :
          /\ Len(Adjacency(n, l)) = MaxConn(l)
          /\ Cardinality({b \in Nodes \ {n} : l \in StoredLayers(b)}) > MaxConn(l) + 2

(* C6: after every completed mutation, an insert of an indexed row-key     *)
(* included, no node lists itself as a neighbour and no adjacency list     *)
(* holds the same row-key twice.                                           *)
NoSelfNoDuplicate ==
    \A n \in Nodes : \A l \in StoredLayers(n) :
        n \notin Range(Adjacency(n, l)) /\ NoRepeats(Adjacency(n, l))

(* every indexed vector has the length the index was fixed to *)
UniformDimension == \A n \in Nodes : Len(m_vectors[n].vector) = vector_dimension

IndexUnchanged ==
    UNCHANGED <<m_vectors, m_entry_point, m_entry_point_layer, vector_dimension, m_array>>

(* C7, as stated: every indexed node's vector has length D, and an insert  *)
(* whose fetched vector has a length other than an already fixed D fails   *)
(* with a dimension-mismatch error and leaves the node table, adjacency    *)
(* lists, entry point, D and the persisted root as they were.              *)
DimensionUniformity ==
    /\ []UniformDimension
    /\ [][\A key \in Keys, vector \in Vectors, node_layer \in Layers :
            (/\ vector_dimension # 0
             /\ Len(vector) # vector_dimension
             /\ Insert(key, vector, node_layer))
            => (last'.outcome = "DimensionMismatch" /\ IndexUnchanged)]_vars

(* C7, amended: every indexed node's vector has length D; an insert whose  *)
(* fetched vector is not empty and has a length other than an already      *)
(* fixed D fails with a dimension-mismatch error, an insert whose fetched  *)
(* vector is empty returns without an error, and both leave the node       *)
(* table, adjacency lists, entry point, D and the persisted root as they   *)
(* were.                                                                   *)
DimensionUniformityNonEmpty ==
    /\ []UniformDimension
    /\ [][\A key \in Keys, vector \in Vectors, node_layer \in Layers :
            /\ (/\ vector # << >>
                /\ vector_dimension # 0
                /\ Len(vector) # vector_dimension
                /\ Insert(key, vector, node_layer))
               => (last'.outcome = "DimensionMismatch" /\ IndexUnchanged)
            /\ (vector = << >> /\ Insert(key, vector, node_layer))
               => (last'.outcome = "empty_vector" /\ IndexUnchanged)]_vars

(* C7 witness: an insert into a non-empty index has been refused for its   *)
(* vector's length.                                                        *)
MismatchedInsertRefused ==
    /\ last.op = "insert"
    /\ last.outcome = "DimensionMismatch"
    /\ Nodes # {}

(* C8: set(k) on an indexed k either replaces k's vector and leaves        *)
(* symmetry, the degree bound and entry-point maximality intact, or, when  *)
(* the new vector's length differs from D, fails and leaves k indexed      *)
(* with its old vector and old links.                                      *)
UpdateAtomicity ==
    [][\A key \in Keys, vector \in Vectors, node_layer \in Layers :
         (key \in Nodes /\ Set(key, vector, node_layer)) =>
            IF Len(vector) # vector_dimension
            THEN last'.outcome # "done" /\ m_vectors' = m_vectors
            ELSE /\ key \in Nodes'
                 /\ m_vectors'[key].vector = vector
                 /\ GraphSymmetry'
                 /\ DegreeBound'
                 /\ EntryPointMaximality']_vars

(* C9: insert(k) for a k that is already indexed does not increase the     *)
(* node count, and the index still holds one node for k.                   *)
NonGrowthOnRepeatedInsert ==
    [][(last'.op = "insert" /\ last'.indexed) =>
          /\ last'.key \in Nodes'
          /\ Cardinality(Nodes') = Cardinality(Nodes)]_vars

(* C9 witness: an insert of an indexed row-key has returned, with another  *)
(* node in the index.                                                      *)
RepeatedInsertReturned ==
    /\ Completed("insert")
    /\ last.indexed
    /\ Cardinality(Nodes) >= 2

(* thread t is inside a member function's locked body *)
Holds(t) == m_mutex.writer = t \/ t \in m_mutex.readers

(* set(k) of thread w has returned from erase and not yet entered insert *)
BetweenEraseAndInsert(w) ==
    call[w].op = "set" /\ call[w].erased /\ pc[w] = "insert_wait"

(* C10: no reader and no other writer running concurrently with set(k) on  *)
(* an indexed k is ever inside the index while k has been erased and not   *)
(* yet re-inserted.                                                        *)
SetAtomicForObservers ==
    \A w \in Threads : \A t \in Threads \ {w} :
        (BetweenEraseAndInsert(w) /\ call[w].key \notin Nodes) => ~Holds(t)

(* C11: no write operation tries to acquire the index lock while its own   *)
(* thread already holds it, so every writer with a key to process runs to  *)
(* completion.                                                             *)
WritersNeverSelfBlock ==
    \A t \in Threads : pc[t] \in {"insert_wait", "erase_wait"} => m_mutex.writer # t

(* C12: a read operation takes the shared lock once and never takes it     *)
(* again while holding it, so with readers and a waiting writer every      *)
(* search_radius call returns.                                             *)
ReadersLockOnce ==
    \A t \in Threads : pc[t] \in {"knn_wait", "deadlocked"} => t \notin m_mutex.readers

(* The states between two complete writes that a read made now can stand   *)
(* for: the current one, or, with a writer inside insert or erase, the one *)
(* before that write and the one after it.                                 *)
CommittedSnapshots ==
    IF \E w \in Threads : pc[w] \in {"insert_linking", "erase_relinking"}
    THEN UNION {{call[w].before,
                 Snapshot(call[w].pending.vecs, call[w].pending.ep, call[w].pending.epl)} :
                   w \in {x \in Threads : pc[x] \in {"insert_linking", "erase_relinking"}}}
    ELSE {Snapshot(m_vectors, m_entry_point, m_entry_point_layer)}

ReadOf(name, value) ==
    \E s \in CommittedSnapshots :
       \/ name = "get_num_vectors" /\ value = s.num_vectors
       \/ name = "get_entry_point" /\ value = s.entry_point
       \/ name = "get_max_layer" /\ value = s.max_layer

(* C13: every value a reader obtains (here through the accessors for node  *)
(* count, entry point and max layer) is the value in one state between two *)
(* complete writes, never one taken from the middle of an insert or erase. *)
SnapshotStableReads ==
    [][\A t \in Threads :
          (observed'[t] # observed[t] /\ observed'[t].op \in
               {"get_num_vectors", "get_entry_point", "get_max_layer"})
          => ReadOf(observed'[t].op, observed'[t].value)]_vars

(* C14: at every step of save, a failed allocation included, the root the  *)
(* storage parent names is the complete old root or the complete new root, *)
(* never a destroyed or partly built one.                                  *)
AtomicRootSwap ==
    \A t \in Threads :
       pc[t] \in {"save_built", "save_destroyed"}
       => m_array \in {call[t].old_root, call[t].pending.root}

(* the neighbours of node k at layer index l, as a set *)
NeighbourSet(vecs, k, l) ==
    IF k \in DOMAIN vecs /\ l <= Len(vecs[k].connections)
    THEN Range(vecs[k].connections[l]) ELSE {}

(* C15: for every graph reached by inserts and erases, saving and loading  *)
(* gives the same row keys, for every node the same neighbour set at every *)
(* layer it has neighbours on, the same entry point and entry layer, and   *)
(* the same dimension.                                                     *)
PersistenceRoundTrip ==
    ~crashed =>
       /\ DOMAIN Reopened(Current).vecs = DOMAIN m_vectors
       /\ \A k \in DOMAIN m_vectors : \A l \in 1..Len(m_vectors[k].connections) :
             m_vectors[k].connections[l] # << >>
             => NeighbourSet(Reopened(Current).vecs, k, l) = Range(m_vectors[k].connections[l])
       /\ Reopened(Current).ep = m_entry_point
       /\ Reopened(Current).epl = m_entry_point_layer
       /\ Reopened(Current).dim = vector_dimension

(* C16: for any saved index, any query vector and any k, search_knn on the *)
(* index reopened from the persisted root returns the same ordered list of *)
(* row keys as search_knn on the index before the save.                    *)
SearchSurvivesReopen ==
    ~crashed =>
       \A query \in Queries, k \in Ks :
          KeysOf(search_knn(Reopened(Current), query, k, 0).results)
             = KeysOf(search_knn(Current, query, k, 0).results)

(* The persisted root with its metadata array missing, cut to 6 slots, or  *)
(* carrying another format version                                         *)
BadMetadataRoots ==
    IF m_array.nodes = {} \/ Len(m_array.meta) < 7 THEN {}
    ELSE {[m_array EXCEPT !.meta = << >>],
          [m_array EXCEPT !.meta = SubSeq(@, 1, 6)],
          [m_array EXCEPT !.meta = [@ EXCEPT ![1] = k_format_version + 1]]}

(* C17: opening a persisted root whose metadata array is missing, shorter  *)
(* than 7 slots or of another format version fails with an error and loads *)
(* no node.                                                                *)
OpenRejectsBadMetadata ==
    \A root \in BadMetadataRoots :
       /\ load_from_storage(root).outcome # "done"
       /\ DOMAIN load_from_storage(root).vecs = {}

(* C18: for every graph state, query and k, search_knn returns at most     *)
(* min(k, count()) results.                                                *)
KnnSizeBound ==
    observed[1].op = "search_knn"
    => Len(observed[1].value) <= Min(observed[1].k, Cardinality(DOMAIN m_vectors))

(* a search that returned exactly k rows of an index holding more *)
KnnFilledToK ==
    /\ observed[1].op = "search_knn"
    /\ observed[1].k = 2
    /\ Len(observed[1].value) = 2
    /\ Cardinality(DOMAIN m_vectors) > 2

RadiusContainment ==
    observed[1].op = "search_radius"
    => \A i \in 1..Len(observed[1].value) :
          observed[1].value[i].distance <= observed[1].max_distance

(* a radius search that returned some rows of the index and left out others *)
RadiusKeptSomeRows ==
    /\ observed[1].op = "search_radius"
    /\ observed[1].max_distance = 0
    /\ Len(observed[1].value) >= 1
    /\ \E k \in DOMAIN m_vectors :
          /\ m_vectors[k].vector # m_vectors[observed[1].value[1].obj_key].vector
          /\ Len(m_vectors[k].vector) = Len(m_vectors[observed[1].value[1].obj_key].vector)

(* C21: for every graph reached by inserts, and every indexed row key r    *)
(* with vector v, search_knn(v, 1) returns exactly one result, at the      *)
(* distance of v to itself, and it is r unless another node has the same   *)
(* vector.                                                                 *)
SelfQuery ==
    ~crashed =>
       \A r \in DOMAIN m_vectors :
          /\ Len(search_knn(Current, m_vectors[r].vector, 1, 0).results) = 1
          /\ search_knn(Current, m_vectors[r].vector, 1, 0).results[1].distance
                = compute_distance(m_vectors[r].vector, m_vectors[r].vector)
          /\ \/ search_knn(Current, m_vectors[r].vector, 1, 0).results[1].obj_key = r
             \/ \E o \in DOMAIN m_vectors \ {r} : m_vectors[o].vector = m_vectors[r].vector

(* C22: after any sequence of inserts and erases that leaves n >= 1 nodes, *)
(* search_knn(q, k) with k >= n and the default ef_search returns exactly  *)
(* n results, one for each remaining row key.                              *)
FullRetrieval ==
    (~crashed /\ DOMAIN m_vectors # {}) =>
       \A query \in {q \in Queries : Len(q) = vector_dimension} :
          \A k \in Cardinality(DOMAIN m_vectors)..(Cardinality(DOMAIN m_vectors) + 1) :
             /\ Len(search_knn(Current, query, k, 0).results) = Cardinality(DOMAIN m_vectors)
             /\ Range(KeysOf(search_knn(Current, query, k, 0).results)) = DOMAIN m_vectors

(* C23: in every reachable state, every row key search_knn or             *)
(* search_radius returns is a row key currently in the node table, never   *)
(* an erased one, and no row key appears twice in one result list.         *)
ResultsAreIndexedRows ==
    ~crashed =>
       \A query \in Queries :
          /\ \A k \in Ks :
                /\ Range(KeysOf(search_knn(Current, query, k, 0).results))
                      \subseteq DOMAIN m_vectors
                /\ Cardinality(Range(KeysOf(search_knn(Current, query, k, 0).results)))
                      = Len(search_knn(Current, query, k, 0).results)
          /\ \A max_distance \in Radii :
                /\ Range(KeysOf(search_radius(Current, query, max_distance).results))
                      \subseteq DOMAIN m_vectors
                /\ Cardinality(Range(KeysOf(search_radius(Current, query, max_distance).results)))
                      = Len(search_radius(Current, query, max_distance).results)

(* a search returns a row whose layer-0 list still names an erased row *)
SearchedPastErasedRow ==
    /\ ~crashed
    /\ \E query \in Queries :
          \E n \in Range(KeysOf(search_knn(Current, query, MaxK, 0).results)) :
             \E i \in 1..Len(m_vectors[n].connections[1]) :
                m_vectors[n].connections[1][i] \notin DOMAIN m_vectors

QueryValidatedFirst ==
    (vector_dimension # 0 /\ ~crashed) =>
       \A query \in {q \in Queries : Len(q) # vector_dimension} : \A k \in Ks :
          search_knn(Current, query, k, 0).outcome = "DimensionMismatch"

(* C26: search_knn with k = 0, and search_knn or search_radius on an empty *)
(* graph, return an empty result and raise no error, and leave the graph,  *)
(* D and the persisted root unchanged.                                     *)
EmptySearchIsQuiet ==
    [][(/\ observed'[1] # observed[1]
        /\ observed'[1].op \in {"search_knn", "search_radius"}
        /\ \/ observed'[1].op = "search_knn" /\ observed'[1].k = 0
           \/ DOMAIN m_vectors = {})
       => /\ observed'[1].value = << >>
          /\ observed'[1].outcome = "done"
          /\ UNCHANGED <<m_vectors, m_entry_point, m_entry_point_layer,
                         vector_dimension, m_array>>]_vars

(* search_knn was called with k = 0 on an index that holds rows *)
SearchedWithZeroK ==
    /\ observed[1].op = "search_knn"
    /\ observed[1].k = 0
    /\ DOMAIN m_vectors # {}

(* C27: erase(k) for a row key k that is not indexed is a no-op: it raises *)
(* no error and leaves the node table, all adjacency lists, the entry      *)
(* point, D and the persisted root unchanged.                              *)
EraseOfMissingKeyIsNoOp ==
    [][(calls' = calls + 1 /\ last'.op = "erase" /\ ~last'.indexed)
       => /\ last'.outcome = "absent"
          /\ crashed' = crashed
          /\ UNCHANGED <<m_vectors, m_entry_point, m_entry_point_layer,
                         vector_dimension, m_array>>]_vars

(* erase was called for a key that is not in a non-empty index *)
ErasedMissingKey ==
    /\ last.op = "erase"
    /\ ~last.indexed
    /\ DOMAIN m_vectors # {}

(* no search on the index in state st returns row key *)
NeverReturned(st, key) ==
    \A query \in Queries :
       /\ \A k \in Ks : key \notin Range(KeysOf(search_knn(st, query, k, 0).results))
       /\ \A max_distance \in Radii :
             key \notin Range(KeysOf(search_radius(st, query, max_distance).results))

(* C28 as stated: insert(k) for a row whose vector list is empty indexes   *)
(* nothing: the node count, all adjacency lists, the entry point and D are *)
(* unchanged, and a later search never returns k.                          *)
EmptyVectorNeverFound ==
    [][(calls' = calls + 1 /\ last'.op = "insert" /\ last'.outcome = "empty_vector")
       => /\ UNCHANGED <<m_vectors, m_entry_point, m_entry_point_layer,
                         vector_dimension, m_array>>
          /\ NeverReturned(Current', last'.key)]_vars

(* C28, amended: insert(k) for a row whose vector list is empty indexes    *)
(* nothing: the node count, all adjacency lists, the entry point and D are *)
(* unchanged, and when k was not indexed before the call a later search    *)
(* never returns k.                                                        *)
EmptyVectorIndexesNothing ==
    [][(calls' = calls + 1 /\ last'.op = "insert" /\ last'.outcome = "empty_vector")
       => /\ UNCHANGED <<m_vectors, m_entry_point, m_entry_point_layer,
                         vector_dimension, m_array>>
          /\ ~last'.indexed => NeverReturned(Current', last'.key)]_vars

(* insert was called with an empty vector for a key that a non-empty index *)
(* does not hold                                                           *)
EmptyVectorSkipped ==
    /\ last.op = "insert"
    /\ last.outcome = "empty_vector"
    /\ ~last.indexed
    /\ DOMAIN m_vectors # {}

(* the filtered result for every membership set, given the raw list *)
SoundForEverySet(st, raw, k) ==
    \A S \in FilterSets :
       /\ Range(KeysOf(PostFilter(raw, S, k))) \subseteq S \cap DOMAIN st.vecs
       /\ Len(PostFilter(raw, S, k)) <= k
       /\ S = {} => PostFilter(raw, S, k) = << >>

(* C29: for every membership set S and k, every row key the filtered       *)
(* search returns is in S and is an indexed row key, the result has at     *)
(* most k entries, and it is empty when S is empty.                        *)
FilteredSearchSound ==
    ~crashed =>
       \A query \in Queries, k \in Ks :
          SoundForEverySet(Current, OverFetched(Current, query, k), k)

(* a filtered search returns fewer rows than the raw one because S leaves  *)
(* out an indexed row, and S also names a row that is not indexed          *)
FilterDroppedRow ==
    /\ ~crashed
    /\ \E query \in Queries, S \in FilterSets :
          /\ S \ DOMAIN m_vectors # {}
          /\ Len(OverFetched(Current, query, 2)) = 2
          /\ Len(filtered_knn(Current, query, 2, S)) = 1

RequestedMetricUsed ==
    call[1].op = "create_index" =>
       /\ call[1].config.metric = to_cpp_metric(call[1].requested)
       /\ observed[1].op = "search_knn" =>
             \A i \in 1..Len(observed[1].value) :
                observed[1].value[i].distance =
                   DistanceUnder(to_cpp_metric(call[1].requested), observed[1].query,
                                 m_vectors[observed[1].value[i].obj_key].vector)

RebuildKeepsRows ==
    [][/\ (call'[1].op = "rebuild" /\ pc'[1] = "insert_wait") => m_mutex'.writer # 1
       /\ (call[1].op = "rebuild" /\ pc'[1] = "idle")
             => /\ DOMAIN m_vectors' = DOMAIN call[1].before
                /\ \A k \in DOMAIN call[1].before :
                      m_vectors'[k].vector = call[1].before[k].vector
                /\ GraphSymmetry'
                /\ DegreeBound'
                /\ EntryPointMaximality']_vars

(* C34: insert links the new node only at layers 0..min(L, entry-layer),   *)
(* L being the new node's top layer and entry-layer the value before the   *)
(* insert, and so no node has a neighbour at a layer above its own top     *)
(* layer.                                                                  *)
LinksWithinTopLayer ==
    [][(calls' = calls + 1 /\ last'.op = "insert" /\ last'.outcome = "done"
        /\ ~last'.indexed)
       => /\ \A l \in 1..Len(m_vectors'[last'.key].connections) :
                l - 1 > Min(m_vectors'[last'.key].layer, m_entry_point_layer)
                => m_vectors'[last'.key].connections[l] = << >>
          /\ \A n \in DOMAIN m_vectors' : \A l \in 1..Len(m_vectors'[n].connections) :
                l - 1 > m_vectors'[n].layer => m_vectors'[n].connections[l] = << >>]_vars

ListAt(vecs, n, layer) ==
    IF n \in DOMAIN vecs /\ layer < Len(vecs[n].connections)
    THEN vecs[n].connections[layer + 1] ELSE << >>

Dropped(c) ==
    Range(ListAt(c.before.vecs, c.node_key, c.layer))
       \ Range(ListAt(c.after.vecs, c.node_key, c.layer))

(* C35: prune(node, l) on a node whose layer-l list exceeds the cap leaves *)
(* the node with at most cap neighbours and removes the node from the      *)
(* layer-l list of every neighbour it drops; a node at or under the cap is *)
(* left unchanged.                                                         *)
PruneUnlinksDropped ==
    call[1].op = "prune" =>
       IF Len(ListAt(call[1].before.vecs, call[1].node_key, call[1].layer))
             <= MaxConn(call[1].layer)
       THEN call[1].after = call[1].before
       ELSE /\ Len(ListAt(call[1].after.vecs, call[1].node_key, call[1].layer))
                  <= MaxConn(call[1].layer)
            /\ \A d \in Dropped(call[1]) :
                  call[1].node_key
                     \notin Range(ListAt(call[1].after.vecs, d, call[1].layer))

(* C36: search_knn runs its layer-0 search with ef = min(max(e, k),        *)
(* |nodes|), e being the caller's ef_search when given and the configured  *)
(* default otherwise; an explicit ef_search below k does not bring the     *)
(* candidate-set size under min(k, |nodes|).                               *)
EfCoversK ==
    (~crashed /\ m_vectors # << >>) =>
       \A k \in Ks \ {0}, ef_search_arg \in EfSearches :
          /\ ClampedEf(m_vectors, k, ef_search_arg)
                = Min(Max(IF ef_search_arg = 0 THEN ef_search ELSE ef_search_arg, k),
                      Cardinality(DOMAIN m_vectors))
          /\ ClampedEf(m_vectors, k, ef_search_arg) >= Min(k, Cardinality(DOMAIN m_vectors))

(* the longest prefix of a result list whose distances are <= rmax *)
LongestPrefixWithin(results, rmax) ==
    SubSeq(results, 1,
           CHOOSE n \in 0..Len(results) :
              /\ \A i \in 1..n : results[i].distance <= rmax
              /\ n < Len(results) => results[n + 1].distance > rmax)

(* C37: search_radius(q, rmax) returns exactly the longest prefix of       *)
(* search_knn(q, |nodes|, ef), ef = min(2 * ef_search, max(ef_search,      *)
(* |nodes|)), whose distances are <= rmax, for every rmax, negative        *)
(* thresholds under the negative-dot-product metric included.              *)
RadiusIsKnnPrefix ==
    ~crashed =>
       \A query \in Queries, max_distance \in Radii :
          search_radius(Current, query, max_distance).results
             = LongestPrefixWithin(
                   search_knn(Current, query, Cardinality(DOMAIN m_vectors),
                              Min(2 * ef_search,
                                  Max(ef_search, Cardinality(DOMAIN m_vectors)))).results,
                   max_distance)

(* the candidate set of a recorded selection, extended by the indexed      *)
(* neighbours of its indexed members at the layer when the call asks so    *)
ExtendedCandidateKeys(c) ==
    Range(KeysOf(c.candidates))
      \cup (IF c.extend_candidates
            THEN UNION {Range(c.vecs[n].connections[c.layer + 1]) \cap DOMAIN c.vecs :
                          n \in {x \in Range(KeysOf(c.candidates)) :
                                    /\ x \in DOMAIN c.vecs
                                    /\ c.layer < Len(c.vecs[x].connections)}}
            ELSE {})

ToQuery(c, n) == compute_distance(c.query, c.vecs[n].vector)

SelectedFromCandidatesInOrder(c) ==
    /\ Len(c.result) <= c.Mcap
    /\ Range(c.result) \subseteq ExtendedCandidateKeys(c)
    /\ \A i, j \in 1..Len(c.result) :
          i < j => c.result[i] # c.result[j] /\ ToQuery(c, c.result[i]) <= ToQuery(c, c.result[j])

LayerSearchRunning == call[1].op = "search_layer" /\ call[1].at = "loop"

LayerSearchReturned == call[1].op = "search_layer" /\ call[1].at = "returned"

ExpandedOnce(f) ==
    \A i, j \in 1..Len(f.expanded) : i # j => f.expanded[i] # f.expanded[j]

(* C39: search_layer terminates on every graph, cyclic adjacency and       *)
(* adjacency entries naming rows no longer in the node table included:     *)
(* each row-key is expanded at most once and the returned list has at most *)
(* ef entries.                                                             *)
SearchLayerTerminates ==
    /\ [](call[1].op = "search_layer" =>
             /\ ExpandedOnce(call[1])
             /\ Len(call[1].result) <= call[1].ef)
    /\ (LayerSearchRunning ~> LayerSearchReturned)

(* a search that has returned after expanding two keys of a cycle and      *)
(* meeting a key that is no longer in the node table                       *)
LayerSearchMetCycleAndDanglingKey ==
    /\ LayerSearchReturned
    /\ Len(call[1].expanded) >= 2
    /\ \E a, b \in Range(call[1].expanded) :
          /\ a # b
          /\ b \in Range(ListAt(m_vectors, a, call[1].layer))
          /\ a \in Range(ListAt(m_vectors, b, call[1].layer))
    /\ call[1].s.visited \ DOMAIN m_vectors # {}

(* C40: at every operation boundary (after each completed insert, set,     *)
(* erase or clear) every node has at most M0 neighbours at layer 0 and at  *)
(* most M neighbours at each higher layer: the slack of 2 that verify      *)
(* tolerates is never used.                                                *)
DegreeCapExact ==
    ~crashed =>
       \A n \in Nodes : \A l \in StoredLayers(n) : Len(Adjacency(n, l)) <= MaxConn(l)

(* an insert has returned on an index where every node's list at layer 0   *)
(* is full, and so is a list at layer 1 although more nodes are stored at  *)
(* that layer than the list may name                                       *)
EveryListAtCap ==
    /\ Completed("insert")
    /\ Cardinality(Nodes) > M0
    /\ \A n \in Nodes : Len(Adjacency(n, 0)) = M0
    /\ \E n \in Nodes :
          /\ Len(Adjacency(n, 1)) = M
          /\ Cardinality({b \in Nodes \ {n} : m_vectors[b].layer >= 1}) > M

====
